---- MODULE Spec2Model ----
(***************************************************************************)
(* FreeWX (fwx): logger for Davis Vantage Pro weather stations.            *)
(*                                                                         *)
(* The model follows fwx.c (main's polling loop, wxgetloop, cvtvploop2fwx, *)
(* wxcalcdewpoint, wxcalcwindgust, wxlog and the three uplinks),           *)
(* support.c (wxwakeup, wxgetack, wxcmd, wxread's result) and davis.h (the *)
(* packed LOOP record).  Values a C build leaves undefined (an             *)
(* uninitialised local, a byte read past a buffer) are chosen              *)
(* nondeterministically.                                                   *)
(***************************************************************************)
EXTENDS Integers, Sequences, FiniteSets, TLC

VARIABLES
    pc,          \* position in the body of main's while (1) loop
    cycle,       \* polling cycles begun so far
    now,         \* what time() returns
    fwxinterval, \* static int fwxinterval
    cfg,         \* which of the uplinks have their credentials set
    wxdat,       \* main's wxdat_t (a WxLogged sample in SpecLog)
    gt,          \* the statics of wxcalcwindgust: warr, walen, waidx, tenmin
    gtPrev,      \* gt as it was when the current cycle began
    gustret,     \* what the last call of wxcalcwindgust returned
    hist,        \* every observation handed to wxcalcwindgust, in order
    ncalls,      \* calls made of the function a specification exercises
    spikeAt,     \* the call that recorded the speed-40 spike (0: none yet)
    i,           \* wxgetloop's wake loop counter
    wake,        \* the last wxwakeup call: its result and the resp buffer
    ack,         \* wxgetack's locals: i, ackbuf, and the reads performed
    cmdWritten,  \* the LOOP command was written in this cycle
    ld,          \* wxgetloop's vploopdata_t buffer
    rdrc,        \* rc of wxgetloop's bulk wxread
    crcres,      \* what wxcrc returned
    crcover,     \* the offsets in ld of the bytes handed to wxcrc
    rx,          \* the frame of the wxread call in progress
    clk,         \* the wall clock, in tenths of a second
    decoded,     \* cvtvploop2fwx ran in this cycle
    logst,       \* wxlog in this cycle: opened, the line fprintf wrote
    wuSent,      \* wxsendwu ran system() in this cycle
    wuQuery,     \* the parameters of the URL wxsendwu handed to system()
    aerisSent,   \* wxsendaeris ran system() in this cycle
    aerisQuery,  \* the parameters of the URL wxsendaeris handed to system()
    cwop,        \* wxsendcwop in this cycle: connected, packet written, closed
    lasthere,    \* wxsendcwop's static time_t lasthere
    pktAt        \* the times at which weather packets went to the CWOP server

vars == <<pc, cycle, now, fwxinterval, cfg, wxdat, gt, gtPrev, gustret, hist,
          ncalls, spikeAt, i, wake, ack, cmdWritten, ld, rdrc, crcres, crcover, rx, clk, decoded, logst,
          wuSent, wuQuery, aerisSent, aerisQuery, cwop, lasthere, pktAt>>

(***************************************************************************)
(* Bounds of the model.                                                    *)
(***************************************************************************)
MaxCycles == 2
MaxCalls == 5
MaxSpikeCalls == 24

(***************************************************************************)
(* Program constants.                                                      *)
(***************************************************************************)
ACK == 6
CR == 13
LF == 10
WakeTries == 4
AckTries == 5
TenMinutes == 600
CwopMinGap == 300
VPLOOPSIZE == 99
EIGHT_ONES == 255
SIXTEEN_ONES == 65535
WXD_VALID == 16
WXD_METRIC == 256
WXD_ENGLISH == 512
VERSION_MAJ == 0
VERSION_MIN == 5

\* Bytes the station (or an uninitialised buffer) can hold: ACK, LF, CR and
\* one byte that is none of them.
DevBytes == {6, 10, 13, 88}

\* The bytes that matter to wxwakeup: LF, CR and one that is neither.
WakeBytes == {10, 13, 88}

(***************************************************************************)
(* wind_t and the gust tracker (fwx.c, wxcalcwindgust).                    *)
(***************************************************************************)
wind_t(s, d) == [speed |-> s, direction |-> d]

ZeroWind == wind_t(0, 0)

NoTracker == [warr |-> <<>>, walen |-> 0, waidx |-> 0, tenmin |-> 0]

NoGust == [null |-> TRUE, found |-> 0 - 1, obs |-> ZeroWind]

\* tenmin = 10 * 60 / fwxinterval + 1
TenMin(interval) == TenMinutes \div interval + 1

\* WalenLoop as a while loop: the test comes before the first doubling.
RECURSIVE WalenWhile(_, _)
WalenWhile(walen, k) ==
    IF k \div 2 # 0 THEN WalenWhile(walen * 2, k \div 2) ELSE walen

\* walen = 1; do { walen <<= 1; } while (i >>= 1);
RECURSIVE WalenLoop(_, _)
WalenLoop(walen, k) ==
    LET w2 == walen * 2
        k2 == k \div 2
    IN  IF k2 # 0 THEN WalenLoop(w2, k2) ELSE w2

WalenFor(tenmin) == WalenLoop(1, tenmin)

\* for (i = 0; i < tenmin; ++i) { idx = (f + i) & (walen - 1);
\*     if (warr[idx].speed > gust) { gust = warr[idx].speed; found = idx; } }
\* The passes lo .. hi - 1 of the loop, run in order from the locals st (the
\* range is halved so that a window of 601 slots needs no deep recursion;
\* the first test only makes TLC evaluate st before it goes on).
RECURSIVE GustScan(_, _, _, _, _, _)
GustScan(warr, walen, f, lo, hi, st) ==
    IF st.gust < 0 \/ hi <= lo THEN st
    ELSE IF hi = lo + 1
    THEN LET idx == (f + lo) % walen
         IN  IF warr[idx].speed > st.gust
             THEN [gust |-> warr[idx].speed, found |-> idx]
             ELSE st
    ELSE LET mid == (lo + hi) \div 2
         IN  GustScan(warr, walen, f, mid, hi,
                      GustScan(warr, walen, f, lo, mid, st))

\* ScanFirst with the window's start one slot late.
ScanFirstLate(waidx, walen, tenmin) == (waidx + (walen - tenmin) + 1) % walen

\* f = (waidx + (walen - tenmin)) & (walen - 1), waidx already advanced
ScanFirst(waidx, walen, tenmin) == (waidx + (walen - tenmin)) % walen

\* NextSlot moving the cursor two slots on.
NextSlotSkip(waidx, walen) == (waidx + 2) % walen

\* waidx = (waidx + 1) & (walen - 1)
NextSlot(waidx, walen) == (waidx + 1) % walen

\* One call.  mallocok: whether malloc succeeds at first use.  found0: the
\* value the uninitialised local `found' happens to hold.  junk: what a read
\* of warr[found] yields when found is no index of the buffer.
wxcalcwindgust(g, wp, interval, mallocok, found0, junk) ==
    LET first  == g.walen = 0
        tenmin == IF first THEN TenMin(interval) ELSE g.tenmin
        walen  == IF first THEN WalenFor(tenmin) ELSE g.walen
    IN  IF first /\ ~mallocok
        THEN [gt  |-> [g EXCEPT !.tenmin = tenmin, !.walen = 0],
              ret |-> NoGust]
        ELSE LET warr0 == IF first THEN [k \in 0 .. walen - 1 |-> ZeroWind]
                                   ELSE g.warr
                 warr1 == [warr0 EXCEPT ![g.waidx] = wp]
                 waidx == NextSlot(g.waidx, walen)
                 f     == ScanFirst(waidx, walen, tenmin)
                 found == GustScan(warr1, walen, f, 0, tenmin,
                                   [gust |-> 0, found |-> found0]).found
             IN  [gt  |-> [warr |-> warr1, walen |-> walen, waidx |-> waidx,
                           tenmin |-> tenmin],
                  ret |-> [null |-> FALSE, found |-> found,
                           obs |-> IF found \in DOMAIN warr1 THEN warr1[found]
                                   ELSE junk]]

\* Values an uninitialised `found' can hold: the first or the last slot of
\* the buffer, or no slot of it.
FoundJunk(g, interval) ==
    LET walen == IF g.walen = 0 THEN WalenFor(TenMin(interval)) ELSE g.walen
    IN  {0 - 1, 0, walen - 1}

JunkWinds == {wind_t(0, 0), wind_t(77, 33)}

(***************************************************************************)
(* The LOOP record (davis.h, vploopdata_t, #pragma pack(1)): a field's     *)
(* offset is the sum of the sizes of the members before it.                *)
(***************************************************************************)
OffBar == 7
OffTempIn == 9
OffHumIn == 11
OffTempOut == 12
OffWindSpeed == 14
OffWindSpeed10 == 15
OffWindDir == 16
OffHumOut == 33
OffRainRate == 41
OffSolarRad == 44
OffRainDay == 50
OffRainMonth == 52
OffRainYear == 54

\* get_d_8(x) and get_d_16(x) without SWAP_DAVIS_DATA (the Makefile does not
\* define it): the member as the little-endian host reads it.
get_d_8(rec, off) == rec[off]

get_d_16(rec, off) == rec[off] + 256 * rec[off + 1]

\* An int16_t member converted to int.
S16(x) == IF x >= 32768 THEN x - 65536 ELSE x

\* A record whose bytes are all `fill' except the members named in f.
Put16(f, off, k, fill) ==
    IF k = off THEN f % 256 ELSE IF k = off + 1 THEN f \div 256 ELSE fill

MkRecord(fill, f) ==
    [k \in 0 .. VPLOOPSIZE - 1 |->
        IF k \in {OffBar, OffBar + 1} THEN Put16(f.bar, OffBar, k, fill)
        ELSE IF k \in {OffTempIn, OffTempIn + 1}
             THEN Put16(f.tempIn, OffTempIn, k, fill)
        ELSE IF k = OffHumIn THEN f.humIn
        ELSE IF k \in {OffTempOut, OffTempOut + 1}
             THEN Put16(f.tempOut, OffTempOut, k, fill)
        ELSE IF k = OffWindSpeed THEN f.windSpeed
        ELSE IF k = OffWindSpeed10 THEN f.windSpeed10
        ELSE IF k \in {OffWindDir, OffWindDir + 1}
             THEN Put16(f.windDir, OffWindDir, k, fill)
        ELSE IF k = OffHumOut THEN f.humOut
        ELSE IF k \in {OffRainRate, OffRainRate + 1}
             THEN Put16(f.rain, OffRainRate, k, fill)
        ELSE IF k \in {OffSolarRad, OffSolarRad + 1}
             THEN Put16(f.solar, OffSolarRad, k, fill)
        ELSE IF k \in {OffRainDay, OffRainDay + 1}
             THEN Put16(f.rain, OffRainDay, k, fill)
        ELSE IF k \in {OffRainMonth, OffRainMonth + 1}
             THEN Put16(f.rain, OffRainMonth, k, fill)
        ELSE IF k \in {OffRainYear, OffRainYear + 1}
             THEN Put16(f.rain, OffRainYear, k, fill)
        ELSE fill]

\* The record in which every byte is 0xFF.
AllOnes == [k \in 0 .. VPLOOPSIZE - 1 |-> EIGHT_ONES]

\* The stack buffer before anything was read into it.
NoRecord == <<>>

(***************************************************************************)
(* wxd_t and wxdat_t (fwx.h).  dat is the union's value: kind "num" is the *)
(* number n/d; kind "dewC"/"dewF" is the Sonntag dewpoint of temperature   *)
(* n/10 and humidity d, computed without ("dewC") or with ("dewF") the     *)
(* conversion from and back to Fahrenheit.                                 *)
(***************************************************************************)
Num(n, d) == [kind |-> "num", n |-> n, d |-> d]

wxd_t(dat, flags, units) == [dat |-> dat, flags |-> flags, units |-> units]

\* memset(&wxdat, 0, sizeof(wxdat_t))
ZeroWxd == wxd_t(Num(0, 1), 0, "")

WXD_ISVALID(x) == (x.flags \div WXD_VALID) % 2 = 1

WXD_ISENGLISH(x) == (x.flags \div WXD_ENGLISH) % 2 = 1

\* The measurement fields wxlog writes, in its order.
LogFields == <<"barometer", "windspeed", "winddir", "avgwindspeed",
               "indoortemp", "outdoortemp", "outdoordewpoint", "indoorhum",
               "outdoorhum", "rainrate", "rainday", "rainmonth", "rainyear",
               "solar">>

MeasFields == {LogFields[k] : k \in 1 .. Len(LogFields)}

ZeroSample(t) ==
    [time |-> t, windcur |-> ZeroWind, windavg |-> ZeroWind,
     windgust |-> ZeroWind, avgwindspeedinterval |-> ZeroWxd,
     barometer |-> ZeroWxd, windspeed |-> ZeroWxd, winddir |-> ZeroWxd,
     avgwindspeed |-> ZeroWxd, indoortemp |-> ZeroWxd,
     outdoortemp |-> ZeroWxd, outdoordewpoint |-> ZeroWxd,
     indoorhum |-> ZeroWxd, outdoorhum |-> ZeroWxd, rainrate |-> ZeroWxd,
     rainday |-> ZeroWxd, rainmonth |-> ZeroWxd, rainyear |-> ZeroWxd,
     solar |-> ZeroWxd]

\* wxcalcdewpoint without the test of its two inputs' validity.
wxcalcdewpointUnguarded(w) ==
    LET temp  == w.outdoortemp.dat.n
        hum   == w.outdoorhum.dat.n
        units == IF WXD_ISENGLISH(w.outdoorhum) THEN "F" ELSE "C"
    IN  IF units = "F"
        THEN [w EXCEPT !.outdoordewpoint =
                 wxd_t([kind |-> "dewF", n |-> temp, d |-> hum],
                       WXD_VALID + WXD_ENGLISH + 1, "deg F")]
        ELSE [w EXCEPT !.outdoordewpoint =
                 wxd_t([kind |-> "dewC", n |-> temp, d |-> hum],
                       WXD_VALID + WXD_METRIC + 1, "deg C")]

\* wxcalcdewpoint.  isnan(dewpoint) is the case hum = 0: ews = 0, log(ews) is
\* -inf and the quotient -inf / +inf is a NaN.
wxcalcdewpoint(w) ==
    IF ~WXD_ISVALID(w.outdoortemp) \/ ~WXD_ISVALID(w.outdoorhum) THEN w
    ELSE LET temp  == w.outdoortemp.dat.n
             hum   == w.outdoorhum.dat.n
             units == IF WXD_ISENGLISH(w.outdoorhum) THEN "F" ELSE "C"
         IN  IF hum = 0 THEN w
             ELSE IF units = "F"
             THEN [w EXCEPT !.outdoordewpoint =
                      wxd_t([kind |-> "dewF", n |-> temp, d |-> hum],
                            WXD_VALID + WXD_ENGLISH + 1, "deg F")]
             ELSE [w EXCEPT !.outdoordewpoint =
                      wxd_t([kind |-> "dewC", n |-> temp, d |-> hum],
                            WXD_VALID + WXD_METRIC + 1, "deg C")]

\* WXD_SETUNITS, then WXD_SETDAT and WXD_SETFLAGS when the raw value passes.
SetField(w, name, units, ok, dat, flags) ==
    [w EXCEPT ![name] = IF ok THEN wxd_t(dat, flags, units)
                        ELSE [@ EXCEPT !.units = units]]

\* TempOk with the all-ones pattern taken as "no data" as well.
TempOkNoOnes(stmp) ==
    stmp # 0 - 1 /\ stmp # 4096 /\ stmp > 0 - 1500 /\ stmp < 1500

\* The legality test of the two temperatures.
TempOk(stmp) == stmp # 4096 /\ stmp > 0 - 1500 /\ stmp < 1500

\* HumOk with 100 itself refused.
HumOkBelow(tmp) == tmp # EIGHT_ONES /\ tmp < 100

\* The legality test of the two humidities.
HumOk(tmp) == tmp # EIGHT_ONES /\ tmp <= 100

\* cvtvploop2fwx: the sample and the tracker after decoding rec into w.
cvtvploop2fwx(rec, w, g, interval, mallocok, found0, junk) ==
    LET bar   == get_d_16(rec, OffBar)
        wsp   == get_d_8(rec, OffWindSpeed)
        wdir  == get_d_16(rec, OffWindDir)
        wsp10 == get_d_8(rec, OffWindSpeed10)
        tin   == S16(get_d_16(rec, OffTempIn))
        tout  == S16(get_d_16(rec, OffTempOut))
        hin   == get_d_8(rec, OffHumIn)
        hout  == get_d_8(rec, OffHumOut)
        rrate == get_d_16(rec, OffRainRate)
        solar == get_d_16(rec, OffSolarRad)
        rday  == get_d_16(rec, OffRainDay)
        rmon  == get_d_16(rec, OffRainMonth)
        ryear == get_d_16(rec, OffRainYear)
        w1  == SetField(w, "barometer", "in", bar # SIXTEEN_ONES,
                        Num(bar, 1000), WXD_VALID + WXD_ENGLISH + 3)
        cur == wind_t(IF wsp # EIGHT_ONES THEN wsp ELSE w1.windcur.speed,
                      IF wdir <= 360 THEN wdir ELSE w1.windcur.direction)
        w2  == [w1 EXCEPT !.windcur = cur,
                          !.windavg.speed = IF wsp10 # EIGHT_ONES THEN wsp10
                                            ELSE @]
        wg  == wxcalcwindgust(g, w2.windcur, interval, mallocok, found0, junk)
        w3  == IF wg.ret.null THEN w2
               ELSE [w2 EXCEPT !.windgust = wg.ret.obs]
        w4  == SetField(w3, "windspeed", "mph", wsp # EIGHT_ONES,
                        Num(wsp, 1), WXD_VALID + WXD_ENGLISH)
        w5  == SetField(w4, "winddir", "deg", wdir <= 360,
                        Num(wdir, 1), WXD_VALID)
        w6  == SetField(w5, "avgwindspeed", "mph", wsp10 # EIGHT_ONES,
                        Num(wsp10, 1), WXD_VALID + WXD_ENGLISH)
        w7  == SetField(w6, "avgwindspeedinterval", "min",
                        wsp10 # EIGHT_ONES, Num(10, 1), WXD_VALID)
        w8  == SetField(w7, "indoortemp", "deg F", TempOk(tin),
                        Num(tin, 10), WXD_VALID + WXD_ENGLISH + 1)
        w9  == SetField(w8, "outdoortemp", "deg F", TempOk(tout),
                        Num(tout, 10), WXD_VALID + WXD_ENGLISH + 1)
        w10 == SetField(w9, "indoorhum", "%", HumOk(hin),
                        Num(hin, 1), WXD_VALID)
        w11 == SetField(w10, "outdoorhum", "%", HumOk(hout),
                        Num(hout, 1), WXD_VALID)
        w12 == SetField(w11, "rainrate", "in/hr", rrate # SIXTEEN_ONES,
                        Num(rrate, 100), WXD_VALID + WXD_ENGLISH + 2)
        w13 == SetField(w12, "solar", "w/m2", solar # SIXTEEN_ONES,
                        Num(solar, 1), WXD_VALID + WXD_METRIC + 2)
        w14 == SetField(w13, "rainday", "in", rday # SIXTEEN_ONES,
                        Num(rday, 100), WXD_VALID + WXD_ENGLISH + 2)
        w15 == SetField(w14, "rainmonth", "in", rmon # SIXTEEN_ONES,
                        Num(rmon, 100), WXD_VALID + WXD_ENGLISH + 2)
        w16 == SetField(w15, "rainyear", "in", ryear # SIXTEEN_ONES,
                        Num(ryear, 100), WXD_VALID + WXD_ENGLISH + 2)
    IN  [wxdat |-> wxcalcdewpoint(w16), gt |-> wg.gt, ret |-> wg.ret]

(***************************************************************************)
(* wxlog (fwx.c).  The buffer str is a sequence of chunks: the text one    *)
(* sprintf wrote, a single ",", or the NUL byte the code stores itself.    *)
(* sprintf's own terminator is overwritten by the next write, because s    *)
(* is left pointing at it; the NUL of `*s++ = '\0'' is not, because s is   *)
(* advanced past it.                                                       *)
(***************************************************************************)
NUL == "NUL"

RECURSIVE Pow10(_)
Pow10(p) == IF p = 0 THEN 1 ELSE 10 * Pow10(p - 1)

RECURSIVE ZeroPad(_, _)
ZeroPad(str, width) == IF Len(str) >= width THEN str
                       ELSE ZeroPad("0" \o str, width)

\* printf("%.<places>f") of the number n / 10^places.
FmtFixed(n, places) ==
    LET a    == IF n < 0 THEN 0 - n ELSE n
        d    == Pow10(places)
        sign == IF n < 0 THEN "-" ELSE ""
    IN  IF places = 0 THEN sign \o ToString(a)
        ELSE sign \o ToString(a \div d) \o "." \o ZeroPad(ToString(a % d), places)

\* The text of a valid field as wxlog's format for it prints it.
FmtDat(dat, places) ==
    IF dat.kind = "num" THEN FmtFixed(dat.n, places)
    ELSE dat.kind \o "(" \o FmtFixed(dat.n, 1) \o ";" \o ToString(dat.d) \o ")"

LogPlaces(name) ==
    CASE name = "barometer" -> 3
      [] name \in {"indoortemp", "outdoortemp", "outdoordewpoint"} -> 1
      [] name \in {"rainrate", "rainday", "rainmonth", "rainyear"} -> 2
      [] OTHER -> 0

\* if (WXD_ISVALID(f)) s += sprintf(s, "<fmt>,", f);
\* else { *s++ = ','; *s++ = '\0'; }
FieldChunks(w, name) ==
    IF WXD_ISVALID(w[name])
    THEN <<FmtDat(w[name].dat, LogPlaces(name)), ",">>
    ELSE <<",", NUL>>

\* The wind speed and, nested in its valid branch, the wind direction.
WindChunks(w) ==
    IF WXD_ISVALID(w.windspeed)
    THEN <<FmtDat(w.windspeed.dat, 0), ",">> \o FieldChunks(w, "winddir")
    ELSE <<",", ",", NUL>>

RECURSIVE RestChunks(_, _)
RestChunks(w, k) ==
    IF k > Len(LogFields) THEN <<>>
    ELSE FieldChunks(w, LogFields[k]) \o RestChunks(w, k + 1)

\* The measurement fields whose value wxlog takes: each WXD_GETDAT is inside
\* the field's own WXD_ISVALID test, the wind direction's also inside the
\* wind speed's.
LogReads(w) ==
    {f \in MeasFields :
        /\ f \in {LogFields[k] : k \in 1 .. Len(LogFields)}
        /\ WXD_ISVALID(w[f])
        /\ (f = "winddir") => WXD_ISVALID(w.windspeed)}

\* str as wxlog leaves it before the fprintf.
wxlogbuf(w) ==
    <<ToString(VERSION_MAJ), ",", ToString(VERSION_MIN), ",",
      ToString(w.time), ",">>
    \o FieldChunks(w, "barometer") \o WindChunks(w) \o RestChunks(w, 4)

\* What "%s" prints of a buffer: its chunks before the first NUL.
RECURSIVE CString(_)
CString(buf) ==
    IF buf = <<>> \/ Head(buf) = NUL THEN <<>>
    ELSE <<Head(buf)>> \o CString(Tail(buf))

RECURSIVE Concat(_)
Concat(chunks) ==
    IF chunks = <<>> THEN "" ELSE Head(chunks) \o Concat(Tail(chunks))

\* wxlog: nothing when fopen fails, else the line fprintf(file, "%s\n") writes.
NoLog == [opened |-> FALSE, chunks |-> <<>>, line |-> ""]

wxlog(w, fopenok) ==
    IF ~fopenok THEN NoLog
    ELSE LET printed == CString(wxlogbuf(w))
         IN  [opened |-> TRUE, chunks |-> printed,
              line |-> Concat(printed) \o "\n"]

\* The number of comma-terminated columns of a written line.
Columns(chunks) == Cardinality({k \in 1 .. Len(chunks) : chunks[k] = ","})

(***************************************************************************)
(* The station conversation (support.c).                                   *)
(***************************************************************************)
\* wxwakeup's result.  flushrc: wxflush; wrc: write of the newline; n:
\* wxread(fd, resp, 2, 5); r0, r1: resp[0] and resp[1] when they are tested
\* (bytes wxread did not store are whatever the stack held).
wxwakeup(flushrc, wrc, n, r0, r1) ==
    IF flushrc # 0 THEN 0 - 1
    ELSE IF wrc # 1 THEN 0 - 1
    ELSE IF n = 0 - 1 THEN 0 - 1
    ELSE IF (r0 # CR /\ r1 # LF) /\ (r0 # LF /\ r1 # CR) THEN 0 - 1
    ELSE 0

\* What one call of wxwakeup can meet: a failed flush, a failed or short
\* write, a failed wxread, or 0, 1 or 2 bytes received.  resp is tested only
\* in the last case, so its bytes are fixed in the others.
WakeInputs ==
    {[flushrc |-> 0 - 1, wrc |-> 1, n |-> 0, r0 |-> 88, r1 |-> 88]}
    \cup {[flushrc |-> 0, wrc |-> w, n |-> 0, r0 |-> 88, r1 |-> 88] :
              w \in {0 - 1, 0}}
    \cup {[flushrc |-> 0, wrc |-> 1, n |-> 0 - 1, r0 |-> 88, r1 |-> 88]}
    \cup {[flushrc |-> 0, wrc |-> 1, n |-> n, r0 |-> r0, r1 |-> r1] :
              n \in {0, 1, 2}, r0 \in WakeBytes, r1 \in WakeBytes}

NoWake == [called |-> FALSE, res |-> 0, got |-> 0, r0 |-> 0, r1 |-> 0]

\* One pass of wxgetack's do { } while (ackbuf != ACK).  n: what
\* wxread(fd, &ackbuf, 1, 1) returned; b: the byte it stored when n = 1.
wxgetack(a, n, b) ==
    LET buf == IF n = 1 THEN b ELSE a.ackbuf
    IN  IF n = 0 - 1
        THEN [ack |-> [a EXCEPT !.reads = @ + 1], out |-> "fail"]
        ELSE IF a.i >= AckTries
        THEN [ack |-> [i |-> a.i + 1, ackbuf |-> buf, reads |-> a.reads + 1,
                       got |-> a.got \/ (n = 1 /\ b = ACK)],
              out |-> "fail"]
        ELSE [ack |-> [i |-> a.i + 1, ackbuf |-> buf, reads |-> a.reads + 1,
                       got |-> a.got \/ (n = 1 /\ b = ACK)],
              out |-> IF buf = ACK THEN "ok" ELSE "again"]

NoAck == [i |-> 0, ackbuf |-> 0, reads |-> 0, got |-> FALSE]

\* wxcmd up to its call of wxgetack.  wrc: what write(fd, cmd, len) returned
\* ("err": -1, "short": fewer than len bytes, "full": len).
wxcmdWrite(wrc) == IF wrc = "full" THEN "ack" ELSE "fail"

(***************************************************************************)
(* support.c, wxread and wxsettimeout.  The clock is kept in tenths of a   *)
(* second, the unit of VTIME; time() is its whole seconds.                 *)
(***************************************************************************)
MAX_TIMEOUT == 30

MAX_READ == 256

\* time((time_t *)NULL) at clock t.
Time(t) == t \div 10

\* termios.c_cc[VTIME] = timeout*10: c_cc holds unsigned chars, so the
\* product is kept modulo 256.  The result with VTIME always 0 is VTimeNone.
VTimeNone(timeout) == 0

VTime(timeout) == (timeout * 10) % 256

\* bufp += rc.  The cursor that stays where it is is AdvanceNot.
AdvanceNot(bufp, rc) == bufp

Advance(bufp, rc) == bufp + rc

\* No call of wxread in progress.  Besides wxread's locals a frame records
\* what its passes met: odd, the parity of their number; zero and short,
\* that a read returned 0 or fewer bytes than asked; more, that a pass
\* followed such a read; failed, that a call failed; filledAt, time() when
\* the last cell was written.
NoRead == [pc |-> "idle", len |-> 0, timeout |-> 0, expire |-> 0,
           remaining |-> 0, bufp |-> 0, buf |-> <<>>, arrived |-> 0,
           odd |-> FALSE, zero |-> FALSE, short |-> FALSE, more |-> FALSE,
           failed |-> FALSE, filledAt |-> 0 - 1, ret |-> 0]

\* wxread was called with these arguments.
ReadCall(len, timeout) ==
    [NoRead EXCEPT !.pc = "entry", !.len = len, !.timeout = timeout]

\* wxread from its entry to the while loop, at clock t: the two range tests,
\* then expire, remaining and bufp.  buf is the caller's buffer, bufp the
\* offset of the cursor in it; a cell that was never written holds 0.
wxreadEnter(r, t) ==
    IF r.timeout <= 0 \/ r.timeout > MAX_TIMEOUT
    THEN [r EXCEPT !.pc = "done", !.ret = 0 - 1]
    ELSE IF r.len = 0 \/ r.len > MAX_READ
    THEN [r EXCEPT !.pc = "done", !.ret = 0 - 1]
    ELSE [r EXCEPT !.pc = "loop", !.expire = Time(t) + r.timeout,
                   !.remaining = r.len, !.bufp = 0,
                   !.buf = [k \in 1 .. r.len |-> 0]]

\* read(fd, bufp, remaining) returning rc >= 0: the device's next rc bytes,
\* numbered in the order they arrive, go to the cells from the cursor on.
Store(r, rc) ==
    [k \in DOMAIN r.buf |->
        IF r.bufp < k /\ k <= r.bufp + rc
        THEN r.arrived + (k - r.bufp)
        ELSE r.buf[k]]

\* One pass of the body of while (remaining > 0 && timeout > 0).  setrc:
\* what wxsettimeout returned; rc: what read returned; t: the clock when
\* read returned.
wxreadPass(r, setrc, rc, t) ==
    IF setrc = 0 - 1
    THEN [r EXCEPT !.pc = "done", !.ret = 0 - 1, !.failed = TRUE,
                   !.odd = ~@]
    ELSE IF rc = 0 - 1
    THEN [r EXCEPT !.pc = "done", !.ret = 0 - 1, !.failed = TRUE,
                   !.odd = ~@]
    ELSE [r EXCEPT !.remaining = @ - rc,
                   !.bufp = Advance(@, rc),
                   !.buf = Store(r, rc),
                   !.arrived = @ + rc,
                   !.odd = ~@,
                   !.zero = @ \/ rc = 0,
                   !.short = @ \/ (0 < rc /\ rc < r.remaining),
                   !.more = @ \/ r.zero \/ r.short,
                   !.filledAt = IF rc > 0 /\ r.remaining = rc
                                THEN Time(t) ELSE @,
                   !.timeout = r.expire - Time(t)]

\* return (len - remaining);
wxreadReturn(r) == [r EXCEPT !.pc = "done", !.ret = r.len - r.remaining]

\* How many bytes a read that found data can deliver when remaining were
\* asked for: all of them, about half, or (of the last few) one.
ReadCounts(remaining) ==
    {remaining, (remaining + 1) \div 2} \cup (IF remaining <= 3 THEN {1} ELSE {})

\* How long a read that found data can have waited, in tenths, when the
\* timer was vtime.
ReadWaits(vtime) == {e \in {0, 10, vtime} : e <= vtime}

\* What read can do with VMIN 0 and VTIME vtime: fail, return 0 when the
\* timer runs out, or return what has arrived as soon as something has.
ReadOutcomes(remaining, vtime) ==
    {[rc |-> 0 - 1, waited |-> 0], [rc |-> 0, waited |-> vtime]}
    \cup {[rc |-> n, waited |-> e] :
              n \in ReadCounts(remaining), e \in ReadWaits(vtime)}

\* What wxread(fd, &ld, sizeof(vploopdata_t), 10) can return: -1, a short
\* count, or the full record.
RdCounts == {0 - 1, 0, VPLOOPSIZE - 1, VPLOOPSIZE}

\* wxcrc((unsigned char *)&ld + 1, rc): the offsets from &ld of the rc bytes
\* that start at the pointer handed over.
CrcRange(rc) == {1 + k : k \in 0 .. rc - 1}

\* What wxcrc can return: 0, or a non-zero residue.
CrcResults == {0, 1}

\* Raw member values of the records the station sends in the polling
\* specification.
Breezy == [bar |-> 29921, tempIn |-> 700, humIn |-> 40, tempOut |-> 723,
           windSpeed |-> 5, windSpeed10 |-> 4, windDir |-> 180,
           humOut |-> 55, rain |-> 12, solar |-> 1200]

Calm == [Breezy EXCEPT !.windSpeed = 0, !.windSpeed10 = 0]

PollRecords == {AllOnes, MkRecord(0, Breezy), MkRecord(0, Calm)}

PollIntervals == {240}

\* The configuration strings, each by whether it is non-empty.
AllConfigs == [wustation : BOOLEAN, wupassword : BOOLEAN,
               aerisstation : BOOLEAN, aerispassword : BOOLEAN,
               cwopsvr : BOOLEAN, cwopuser : BOOLEAN, cwoploc : BOOLEAN]

\* WuSet without the test of the password.
WuSetStationOnly(c) == c.wustation

\* The negations of (!*wustation || !*wupassword),
\* (!*aerisstation || !*aerispassword), (!*cwopsvr || !*cwopuser || !*cwoploc)
WuSet(c) == c.wustation /\ c.wupassword

AerisSet(c) == c.aerisstation /\ c.aerispassword

CwopSet(c) == c.cwopsvr /\ c.cwopuser /\ c.cwoploc

\* The configurations of the polling specification: each uplink has all of
\* its strings or none.
Configs ==
    {c \in AllConfigs : /\ c.wustation = c.wupassword
                        /\ c.aerisstation = c.aerispassword
                        /\ c.cwopsvr = c.cwopuser /\ c.cwopuser = c.cwoploc}

NoUplinks == [f \in DOMAIN CHOOSE c \in AllConfigs : TRUE |-> FALSE]

(***************************************************************************)
(* wxsendwu and wxsendaeris (fwx.c): the URL handed to fetch, as the       *)
(* sequence of its parameters <<name, text>>.                              *)
(***************************************************************************)
Param(name, text) == <<name, text>>

\* &windspeedmph=%d, and &winddir=%d if (wxdp->windcur.speed != 0)
WindParams(w) ==
    <<Param("windspeedmph", ToString(w.windcur.speed))>>
    \o (IF w.windcur.speed # 0
        THEN <<Param("winddir", ToString(w.windcur.direction))>> ELSE <<>>)

\* GustParamsAeris with the direction as wxsendwu writes it.
GustParamsAerisDir(w) ==
    <<Param("windgustmph", ToString(w.windgust.speed))>>
    \o (IF w.windgust.speed # 0
        THEN <<Param("windgustdir", ToString(w.windgust.direction))>>
        ELSE <<>>)

\* wxsendwu: &windgustmph=%d, and &windgustdir=%d if the gust speed is not 0
GustParamsWu(w) ==
    <<Param("windgustmph", ToString(w.windgust.speed))>>
    \o (IF w.windgust.speed # 0
        THEN <<Param("windgustdir", ToString(w.windgust.direction))>>
        ELSE <<>>)

\* wxsendaeris: &windgustmph=%d; the direction is compiled out (#if 0)
GustParamsAeris(w) == <<Param("windgustmph", ToString(w.windgust.speed))>>

\* if (WXD_ISVALID(wxdp->f)) s += sprintf(s, "&name=<fmt>", f)
MeasParam(w, name, field, places) ==
    IF WXD_ISVALID(w[field])
    THEN <<Param(name, FmtDat(w[field].dat, places))>> ELSE <<>>

\* The measurement fields whose value the two builders take: each
\* WXD_GETDAT is inside the field's own WXD_ISVALID test.
QueryReads(w) ==
    {f \in {"outdoortemp", "rainrate", "rainday", "barometer", "outdoorhum",
            "outdoordewpoint", "solar"} : WXD_ISVALID(w[f])}

\* The parameters both builders write under WXD_ISVALID, in their order.
MeasParams(w) ==
    MeasParam(w, "tempf", "outdoortemp", 1)
    \o MeasParam(w, "rainin", "rainrate", 2)
    \o MeasParam(w, "dailyrainin", "rainday", 2)
    \o MeasParam(w, "baromin", "barometer", 3)
    \o MeasParam(w, "humidity", "outdoorhum", 0)
    \o MeasParam(w, "dewptf", "outdoordewpoint", 1)
    \o MeasParam(w, "solarradiation", "solar", 0)

Software == "fwx%20v" \o ToString(VERSION_MAJ) \o "." \o ToString(VERSION_MIN)

\* wxsendwu(wxdp): nothing unless station and password are set.  The
\* strftime text stands for the sample's time.
wxsendwu(configured, w, interval) ==
    IF ~configured THEN [sent |-> FALSE, query |-> <<>>]
    ELSE [sent |-> TRUE,
          query |-> <<Param("action", "updateraw"), Param("realtime", "1"),
                      Param("rtfreq", ToString(interval)),
                      Param("ID", "station"), Param("PASSWORD", "password"),
                      Param("dateutc", ToString(w.time)),
                      Param("softwaretype", Software)>>
                    \o WindParams(w) \o GustParamsWu(w) \o MeasParams(w)]

\* wxsendaeris(wxdp)
wxsendaeris(configured, w) ==
    IF ~configured THEN [sent |-> FALSE, query |-> <<>>]
    ELSE [sent |-> TRUE,
          query |-> <<Param("ID", "station"), Param("PASSWORD", "password"),
                      Param("dateutc", ToString(w.time))>>
                    \o WindParams(w) \o GustParamsAeris(w) \o MeasParams(w)
                    \o <<Param("softwaretype", Software),
                         Param("action", "updateraw")>>]

(***************************************************************************)
(* wxsendcwop and waitforsrv (fwx.c): the CWOP/APRS uplink.                *)
(***************************************************************************)
\* (int)nearbyintf(n / d) for d > 0, in the default rounding mode: to the
\* nearest integer, a tie to the even one.
NearbyInt(n, d) ==
    LET q == n \div d
        r == n - q * d
    IN  IF 2 * r < d THEN q
        ELSE IF 2 * r > d THEN q + 1
        ELSE IF q % 2 = 0 THEN q ELSE q + 1

\* sprintf("%0<width>d", n)
FmtInt(n, width) ==
    IF n < 0 THEN "-" \o ZeroPad(ToString(0 - n), width - 1)
    ELSE ZeroPad(ToString(n), width)

\* The float a wxd_t holds, as the fraction n / d; the zeroed union reads 0.
DatN(x) == IF x.dat.kind = "num" THEN x.dat.n ELSE 0

DatD(x) == IF x.dat.kind = "num" THEN x.dat.d ELSE 1

\* "_%03d/%03dg%03d" of windcur.direction, windcur.speed, windgust.speed
AprsWind(w) ==
    "_" \o FmtInt(w.windcur.direction, 3) \o "/" \o FmtInt(w.windcur.speed, 3)
        \o "g" \o FmtInt(w.windgust.speed, 3)

\* tmp = (int)nearbyintf(outdoortemp);
\* tmp < 0 ? sprintf("t-%02d", -tmp) : sprintf("t%03d", tmp)
AprsTemp(w) ==
    LET tmp == NearbyInt(DatN(w.outdoortemp), DatD(w.outdoortemp))
    IN  IF tmp < 0 THEN "t-" \o FmtInt(0 - tmp, 2) ELSE "t" \o FmtInt(tmp, 3)

\* "P%03d" of (int)nearbyintf(rainday * 100)
AprsRain(w) ==
    "P" \o FmtInt(NearbyInt(DatN(w.rainday) * 100, DatD(w.rainday)), 3)

\* "h%02d" of tmp > 99 ? 0 : tmp
AprsHum(w) ==
    LET tmp == NearbyInt(DatN(w.outdoorhum), DatD(w.outdoorhum))
    IN  "h" \o FmtInt(IF tmp > 99 THEN 0 ELSE tmp, 2)

\* (int)nearbyintf(n / d * 33.86389 * 10), the product n * 3386389 taken
\* in two parts to stay within 32 bits.
MillibarTenths(n, d) ==
    LET B   == n * 389
        N   == n * 3386 + B \div 1000
        br  == B % 1000
        D   == d * 10
        q   == N \div D
        lhs == 2000 * (N % D) + 2 * br
        rhs == 1000 * D
    IN  IF lhs < rhs THEN q
        ELSE IF lhs > rhs THEN q + 1
        ELSE IF q % 2 = 0 THEN q ELSE q + 1

\* "b%05d" of (int)nearbyintf(barometer * 33.86389 * 10)
AprsBar(w) ==
    "b" \o FmtInt(MillibarTenths(DatN(w.barometer), DatD(w.barometer)), 5)

\* tmp > 999 ? sprintf("l%03d", tmp - 1000) : sprintf("L%03d", tmp)
AprsSolar(w) ==
    LET tmp == DatN(w.solar)
    IN  IF tmp > 999 THEN "l" \o FmtInt(tmp - 1000, 3)
        ELSE "L" \o FmtInt(tmp, 3)

\* The measurement fields whose value (WXD_GETDAT) the packet's formats take:
\* none of the five is under a WXD_ISVALID test.
CwopReads == {"outdoortemp", "rainday", "outdoorhum", "barometer", "solar"}

NoPacket == [built |-> FALSE, reads |-> {}, dir |-> "", wind |-> "", temp |-> "", rain |-> "",
             hum |-> "", bar |-> "", solar |-> "", text |-> ""]

\* The weather packet wxsendcwop builds in str, and its fields.  cwopuser
\* and cwoploc are configuration strings; the strftime text stands for the
\* sample's time.
CwopPacket(w) ==
    LET head == "CW0001" \o ">APRS,TCPIP*:@" \o ToString(w.time) \o "z"
                \o "0000.00N/00000.00W"
    IN  [built |-> TRUE, reads |-> CwopReads,
         dir |-> FmtInt(w.windcur.direction, 3),
         wind |-> AprsWind(w), temp |-> AprsTemp(w),
         rain |-> AprsRain(w), hum |-> AprsHum(w), bar |-> AprsBar(w),
         solar |-> AprsSolar(w),
         text |-> head \o AprsWind(w) \o AprsTemp(w) \o "r...p..."
                  \o AprsRain(w) \o AprsHum(w) \o AprsBar(w) \o AprsSolar(w)
                  \o "wfwx\r\n"]

\* waitforsrv: whether data of the server was read.  sel is select's
\* return, rd is read's.
waitforsrv(sel, rd) == sel = 1 /\ rd > 0

\* What select and read can return in waitforsrv: data, end of file, or
\* select's -1 (the interval timer's SIGALRM interrupts it).
SrvOutcomes == {<<1, 1>>, <<1, 0>>, <<0 - 1, 0>>}

\* Where a session of wxsendcwop ends.
CwopHows == {"noaddr", "nosocket", "noconnect", "nofmt", "nologin",
             "nopacket", "sent"}

NoCwop == [tried |-> FALSE, connected |-> FALSE, sent |-> FALSE,
           closed |-> FALSE, how |-> "skipped", events |-> <<>>,
           packet |-> NoPacket]

\* RateLimited with a limit of four minutes.
RateLimitedFourMinutes(t, last) == t - last < 4 * 60

\* if (now - lasthere < 5 * 60) return;
RateLimited(t, last) == t - last < CwopMinGap

\* Stamp, taken as soon as the login line is out.
StampAtLogin(t, last, how) == IF how \in {"nopacket", "sent"} THEN t ELSE last

\* lasthere after the call: lasthere = now is the last statement of the
\* path on which both writes succeeded.
Stamp(t, last, how) == IF how = "sent" THEN t ELSE last

\* wxsendcwop(wxdp) called at time t with lasthere = last.  how: where the
\* session ends; ban, rsp: what the two calls of waitforsrv meet.
wxsendcwop(configured, t, last, w, how, ban, rsp) ==
    LET e1 == <<"connect">> \o (IF waitforsrv(ban[1], ban[2])
                                THEN <<"banner">> ELSE <<>>)
        e3 == e1 \o <<"login">> \o (IF waitforsrv(rsp[1], rsp[2])
                                    THEN <<"response">> ELSE <<>>)
        Ses(conn, snt, cls, ev, pkt) ==
            [tried |-> TRUE, connected |-> conn, sent |-> snt,
             closed |-> cls, how |-> how, events |-> ev, packet |-> pkt]
    IN  IF ~configured \/ RateLimited(t, last)
        THEN [cwop |-> NoCwop, lasthere |-> last]
        ELSE [cwop |->
                CASE how \in {"noaddr", "nosocket"} ->
                       Ses(FALSE, FALSE, FALSE, <<>>, NoPacket)
                  [] how = "noconnect" ->
                       Ses(FALSE, FALSE, TRUE, <<"close">>, NoPacket)
                  [] how = "nofmt" ->
                       Ses(TRUE, FALSE, FALSE, e1, NoPacket)
                  [] how = "nologin" ->
                       Ses(TRUE, FALSE, TRUE, e1 \o <<"close">>, NoPacket)
                  [] how = "nopacket" ->
                       Ses(TRUE, FALSE, TRUE, e3 \o <<"close">>,
                           CwopPacket(w))
                  [] OTHER ->
                       Ses(TRUE, TRUE, TRUE, e3 \o <<"packet", "close">>,
                           CwopPacket(w)),
              lasthere |-> Stamp(t, last, how)]

(***************************************************************************)
(* main's polling loop, one action per step.                               *)
(***************************************************************************)
Init ==
    /\ pc = "wake"
    /\ cycle = 1
    /\ now = CwopMinGap
    /\ fwxinterval \in PollIntervals
    /\ cfg \in Configs
    /\ wxdat = ZeroSample(CwopMinGap)
    /\ gt = NoTracker
    /\ gtPrev = NoTracker
    /\ gustret = NoGust
    /\ hist = <<>>
    /\ ncalls = 0
    /\ spikeAt = 0
    /\ i = 0
    /\ wake = NoWake
    /\ ack = NoAck
    /\ cmdWritten = FALSE
    /\ ld = NoRecord
    /\ rdrc = 0
    /\ crcres = 0
    /\ crcover = {}
    /\ rx = NoRead
    /\ clk = 0
    /\ decoded = FALSE
    /\ logst = NoLog
    /\ wuSent = FALSE
    /\ wuQuery = <<>>
    /\ aerisSent = FALSE
    /\ aerisQuery = <<>>
    /\ cwop = NoCwop
    /\ lasthere = 0
    /\ pktAt = <<>>

\* One pass of wxgetloop's for (i = 0; i < 4; ++i): a call of wxwakeup, the
\* break on success, else ++i; the loop's exit leads to wxcmd either way.
WakeAttempt ==
    /\ pc = "wake"
    /\ i < WakeTries
    /\ \E in \in WakeInputs :
          LET res  == wxwakeup(in.flushrc, in.wrc, in.n, in.r0, in.r1)
              read == in.flushrc = 0 /\ in.wrc = 1 /\ in.n >= 0
          IN  /\ wake' = [called |-> TRUE, res |-> res,
                          got |-> IF read THEN in.n ELSE 0,
                          r0 |-> in.r0, r1 |-> in.r1]
              /\ IF res = 0
                 THEN i' = i /\ pc' = "cmd"
                 ELSE /\ i' = i + 1
                      /\ pc' = IF i + 1 < WakeTries THEN "wake" ELSE "cmd"
    /\ UNCHANGED <<cycle, now, fwxinterval, cfg, wxdat, gt, gtPrev, gustret,
                   hist, ncalls, spikeAt, ack, cmdWritten, ld, rdrc, crcres, crcover, rx, clk,
                   decoded, logst, wuSent, wuQuery, aerisSent, aerisQuery, cwop, lasthere, pktAt>>

\* wxcmd(fd, VPLOOPCMD): the write of "LOOP 01\n"; ackbuf is uninitialised
\* when wxgetack begins.
WriteCmd ==
    /\ pc = "cmd"
    /\ \E wrc \in {"err", "short", "full"}, junk \in DevBytes :
          /\ cmdWritten' = (wrc = "full")
          /\ IF wxcmdWrite(wrc) = "ack"
             THEN pc' = "ack" /\ ack' = [NoAck EXCEPT !.ackbuf = junk]
             ELSE pc' = "ret" /\ ack' = NoAck
    /\ wake' = NoWake
    /\ UNCHANGED <<cycle, now, fwxinterval, cfg, wxdat, gt, gtPrev, gustret,
                   hist, ncalls, spikeAt, i, ld, rdrc, crcres, crcover, rx, clk, decoded, logst,
                   wuSent, wuQuery, aerisSent, aerisQuery, cwop, lasthere, pktAt>>

\* One read of wxgetack.
AckRead ==
    /\ pc = "ack"
    /\ \E n \in {0 - 1, 0, 1}, b \in DevBytes :
          LET r == wxgetack(ack, n, IF n = 1 THEN b ELSE 0)
          IN  /\ ack' = r.ack
              /\ pc' = CASE r.out = "ok" -> "read"
                         [] r.out = "again" -> "ack"
                         [] OTHER -> "ret"
    /\ UNCHANGED <<cycle, now, fwxinterval, cfg, wxdat, gt, gtPrev, gustret,
                   hist, ncalls, spikeAt, i, wake, cmdWritten, ld, rdrc,
                   crcres, crcover, rx, clk, decoded, logst, wuSent, wuQuery, aerisSent, aerisQuery, cwop, lasthere, pktAt>>

\* wxread(fd, &ld, sizeof(vploopdata_t), 10) and the two tests of rc.
ReadRecord ==
    /\ pc = "read"
    /\ \E n \in RdCounts, rec \in PollRecords :
          /\ rdrc' = n
          /\ ld' = IF n = VPLOOPSIZE THEN rec ELSE NoRecord
          /\ pc' = IF n = 0 - 1 \/ n # VPLOOPSIZE THEN "ret" ELSE "crc"
    /\ UNCHANGED <<cycle, now, fwxinterval, cfg, wxdat, gt, gtPrev, gustret,
                   hist, ncalls, spikeAt, i, wake, ack, cmdWritten, crcres, crcover, rx, clk,
                   decoded, logst, wuSent, wuQuery, aerisSent, aerisQuery, cwop, lasthere, pktAt>>

\* CheckCrc without the test of wxcrc's result.
CheckCrcUntested ==
    /\ pc = "crc"
    /\ \E r \in CrcResults : crcres' = r
    /\ crcover' = CrcRange(rdrc)
    /\ UNCHANGED <<rx, clk>>
    /\ pc' = "decode"
    /\ UNCHANGED <<cycle, now, fwxinterval, cfg, wxdat, gt, gtPrev, gustret,
                   hist, ncalls, spikeAt, i, wake, ack, cmdWritten, ld, rdrc,
                   decoded, logst, wuSent, wuQuery, aerisSent, aerisQuery, cwop, lasthere, pktAt>>

\* if (wxcrc((unsigned char *)&ld + 1, rc) != 0) return;
CheckCrc ==
    /\ pc = "crc"
    /\ \E r \in CrcResults :
          /\ crcres' = r
          /\ crcover' = CrcRange(rdrc)
          /\ UNCHANGED <<rx, clk>>
          /\ pc' = IF r # 0 THEN "ret" ELSE "decode"
    /\ UNCHANGED <<cycle, now, fwxinterval, cfg, wxdat, gt, gtPrev, gustret,
                   hist, ncalls, spikeAt, i, wake, ack, cmdWritten, ld, rdrc,
                   decoded, logst, wuSent, wuQuery, aerisSent, aerisQuery, cwop, lasthere, pktAt>>

\* cvtvploop2fwx(&ld, wxdatp)
Decode ==
    /\ pc = "decode"
    /\ \E mallocok \in (IF gt.walen = 0 THEN BOOLEAN ELSE {TRUE}),
          found0 \in FoundJunk(gt, fwxinterval), junk \in JunkWinds :
          LET r == cvtvploop2fwx(ld, wxdat, gt, fwxinterval, mallocok,
                                 found0, junk)
          IN  /\ wxdat' = r.wxdat
              /\ gt' = r.gt
              /\ gustret' = r.ret
    /\ decoded' = TRUE
    /\ pc' = "ret"
    /\ UNCHANGED <<cycle, now, fwxinterval, cfg, gtPrev, hist, ncalls, spikeAt,
                   i, wake, ack, cmdWritten, ld, rdrc, crcres, crcover, rx, clk, logst, wuSent, wuQuery,
                   aerisSent, aerisQuery, cwop, lasthere, pktAt>>

\* wxgetloop returns: its locals i, rc and ld are gone.
GetLoopReturn ==
    /\ pc = "ret"
    /\ i' = 0
    /\ ack' = NoAck
    /\ ld' = NoRecord
    /\ rdrc' = 0
    /\ crcres' = 0
    /\ crcover' = {}
    /\ UNCHANGED <<rx, clk>>
    /\ pc' = "log"
    /\ UNCHANGED <<cycle, now, fwxinterval, cfg, wxdat, gt, gtPrev, gustret,
                   hist, ncalls, spikeAt, wake, cmdWritten, decoded, logst,
                   wuSent, wuQuery, aerisSent, aerisQuery, cwop, lasthere, pktAt>>

\* wxlog(fwxlogdir, &wxdat)
WxLog ==
    /\ pc = "log"
    /\ \E fopenok \in BOOLEAN : logst' = wxlog(wxdat, fopenok)
    /\ pc' = "wu"
    /\ UNCHANGED <<cycle, now, fwxinterval, cfg, wxdat, gt, gtPrev, gustret,
                   hist, ncalls, spikeAt, i, wake, ack, cmdWritten, ld, rdrc,
                   crcres, crcover, rx, clk, decoded, wuSent, wuQuery, aerisSent, aerisQuery, cwop, lasthere, pktAt>>

\* wxsendwu(&wxdat): system() runs unless the station or password is unset.
WxSendWu ==
    /\ pc = "wu"
    /\ LET r == wxsendwu(WuSet(cfg), wxdat, fwxinterval)
       IN  wuSent' = r.sent /\ wuQuery' = r.query
    /\ pc' = "cwop"
    /\ UNCHANGED <<cycle, now, fwxinterval, cfg, wxdat, gt, gtPrev, gustret,
                   hist, ncalls, spikeAt, i, wake, ack, cmdWritten, ld, rdrc,
                   crcres, crcover, rx, clk, decoded, logst, aerisSent, aerisQuery, cwop, lasthere, pktAt>>

\* WxSendCwop with main going back to the wait when the session failed.
WxSendCwopOrGiveUp ==
    /\ pc = "cwop"
    /\ \E how \in CwopHows, ban \in SrvOutcomes, rsp \in SrvOutcomes :
          LET r == wxsendcwop(CwopSet(cfg), now, lasthere, wxdat, how, ban, rsp)
          IN  /\ cwop' = r.cwop /\ lasthere' = r.lasthere /\ pktAt' = pktAt
              /\ pc' = IF r.cwop.tried /\ ~r.cwop.sent THEN "wait"
                       ELSE "aeris"
    /\ UNCHANGED <<cycle, now, fwxinterval, cfg, wxdat, gt, gtPrev, gustret,
                   hist, ncalls, spikeAt, i, wake, ack, cmdWritten, ld, rdrc,
                   crcres, crcover, rx, clk, decoded, logst, wuSent, wuQuery, aerisSent,
                   aerisQuery>>

\* wxsendcwop(&wxdat)
WxSendCwop ==
    /\ pc = "cwop"
    /\ \E how \in CwopHows, ban \in SrvOutcomes, rsp \in SrvOutcomes :
          LET r == wxsendcwop(CwopSet(cfg), now, lasthere, wxdat, how, ban, rsp)
          IN  cwop' = r.cwop /\ lasthere' = r.lasthere /\ pktAt' = pktAt
    /\ pc' = "aeris"
    /\ UNCHANGED <<cycle, now, fwxinterval, cfg, wxdat, gt, gtPrev, gustret,
                   hist, ncalls, spikeAt, i, wake, ack, cmdWritten, ld, rdrc,
                   crcres, crcover, rx, clk, decoded, logst, wuSent, wuQuery, aerisSent, aerisQuery>>

\* wxsendaeris(&wxdat)
WxSendAeris ==
    /\ pc = "aeris"
    /\ LET r == wxsendaeris(AerisSet(cfg), wxdat)
       IN  aerisSent' = r.sent /\ aerisQuery' = r.query
    /\ pc' = "wait"
    /\ UNCHANGED <<cycle, now, fwxinterval, cfg, wxdat, gt, gtPrev, gustret,
                   hist, ncalls, spikeAt, i, wake, ack, cmdWritten, ld, rdrc,
                   crcres, crcover, rx, clk, decoded, logst, wuSent, wuQuery, cwop, lasthere, pktAt>>

\* select() until the interval timer's SIGALRM, then the top of the next
\* pass of while (1): memset(&wxdat, 0, sizeof(wxdat_t)); wxdat.time = time(0);
\* and the entry of wxgetloop.
WaitTimer ==
    /\ pc = "wait"
    /\ cycle < MaxCycles
    /\ cycle' = cycle + 1
    /\ now' = now + fwxinterval
    /\ wxdat' = ZeroSample(now + fwxinterval)
    /\ gtPrev' = gt
    /\ gustret' = NoGust
    /\ i' = 0
    /\ wake' = NoWake
    /\ ack' = NoAck
    /\ cmdWritten' = FALSE
    /\ ld' = NoRecord
    /\ rdrc' = 0
    /\ crcres' = 0
    /\ crcover' = {}
    /\ UNCHANGED <<rx, clk>>
    /\ decoded' = FALSE
    /\ logst' = NoLog
    /\ wuSent' = FALSE
    /\ wuQuery' = <<>>
    /\ aerisSent' = FALSE
    /\ aerisQuery' = <<>>
    /\ cwop' = NoCwop
    /\ pc' = "wake"
    /\ UNCHANGED <<fwxinterval, cfg, gt, hist, ncalls, spikeAt, lasthere, pktAt>>

Next ==
    \/ WakeAttempt
    \/ WriteCmd
    \/ AckRead
    \/ ReadRecord
    \/ CheckCrc
    \/ Decode
    \/ GetLoopReturn
    \/ WxLog
    \/ WxSendWu
    \/ WxSendCwop
    \/ WxSendAeris
    \/ WaitTimer

Spec == Init /\ [][Next]_vars

(***************************************************************************)
(* wxlog on its own: every combination of valid and invalid measurements.  *)
(***************************************************************************)
\* A valid value of each measurement, as cvtvploop2fwx stores it.
RefField(name) ==
    CASE name = "barometer" ->
             wxd_t(Num(29921, 1000), WXD_VALID + WXD_ENGLISH + 3, "in")
      [] name = "windspeed" ->
             wxd_t(Num(5, 1), WXD_VALID + WXD_ENGLISH, "mph")
      [] name = "winddir" -> wxd_t(Num(180, 1), WXD_VALID, "deg")
      [] name = "avgwindspeed" ->
             wxd_t(Num(4, 1), WXD_VALID + WXD_ENGLISH, "mph")
      [] name = "indoortemp" ->
             wxd_t(Num(700, 10), WXD_VALID + WXD_ENGLISH + 1, "deg F")
      [] name = "outdoortemp" ->
             wxd_t(Num(723, 10), WXD_VALID + WXD_ENGLISH + 1, "deg F")
      [] name = "outdoordewpoint" ->
             wxd_t([kind |-> "dewC", n |-> 723, d |-> 55],
                   WXD_VALID + WXD_METRIC + 1, "deg C")
      [] name = "indoorhum" -> wxd_t(Num(40, 1), WXD_VALID, "%")
      [] name = "outdoorhum" -> wxd_t(Num(55, 1), WXD_VALID, "%")
      [] name = "solar" ->
             wxd_t(Num(1200, 1), WXD_VALID + WXD_METRIC + 2, "w/m2")
      [] OTHER -> wxd_t(Num(12, 100), WXD_VALID + WXD_ENGLISH + 2, "in")

\* The sample whose valid measurements are exactly those of V.
SampleWith(t, V) ==
    [name \in DOMAIN ZeroSample(t) |->
        IF name \in V THEN RefField(name) ELSE ZeroSample(t)[name]]

PollLocalsInit ==
    /\ i = 0
    /\ wake = NoWake
    /\ ack = NoAck
    /\ cmdWritten = FALSE
    /\ crcres = 0
    /\ crcover = {}
    /\ rx = NoRead
    /\ clk = 0
    /\ logst = NoLog
    /\ wuSent = FALSE
    /\ wuQuery = <<>>
    /\ aerisSent = FALSE
    /\ aerisQuery = <<>>
    /\ cwop = NoCwop
    /\ lasthere = 0
    /\ pktAt = <<>>

GustVarsInit ==
    /\ gt = NoTracker
    /\ gtPrev = NoTracker
    /\ gustret = NoGust
    /\ hist = <<>>
    /\ ncalls = 0
    /\ spikeAt = 0

InitLog ==
    /\ pc = "log"
    /\ cycle = 1
    /\ now = CwopMinGap
    /\ fwxinterval \in PollIntervals
    /\ cfg = NoUplinks
    /\ wxdat \in {SampleWith(CwopMinGap, V) : V \in SUBSET MeasFields}
    /\ ld = NoRecord
    /\ rdrc = 0
    /\ decoded = TRUE
    /\ PollLocalsInit
    /\ GustVarsInit

SpecLog == InitLog /\ [][WxLog]_vars

(***************************************************************************)
(* wxcalcwindgust on its own: a stream of observations.                    *)
(***************************************************************************)
Speeds == {0, 1, 2}

Dirs == {0, 180}

GustIntervals == {300, 600}

\* All of 61 .. 66 give tenmin = 10.
SpikeIntervals == {61, 66}

\* One call with the observation (sp, d); M: what malloc may do at first use.
GustStep(sp, d, M) ==
    \E mallocok \in (IF gt.walen = 0 THEN M ELSE {TRUE}),
       found0 \in FoundJunk(gt, fwxinterval), junk \in JunkWinds :
       LET r == wxcalcwindgust(gt, wind_t(sp, d), fwxinterval, mallocok,
                               found0, junk)
       IN  /\ gt' = r.gt
           /\ gustret' = r.ret
           /\ ncalls' = ncalls + 1
           /\ hist' = IF r.ret.null THEN hist ELSE Append(hist, wind_t(sp, d))

GustFrame ==
    UNCHANGED <<pc, cycle, now, fwxinterval, cfg, wxdat, gtPrev, i, wake, ack,
                cmdWritten, ld, rdrc, crcres, crcover, rx, clk, decoded, logst, wuSent, wuQuery,
                aerisSent, aerisQuery, cwop, lasthere, pktAt>>

InitGustRest ==
    /\ cycle = 0
    /\ now = CwopMinGap
    /\ cfg = NoUplinks
    /\ wxdat = ZeroSample(CwopMinGap)
    /\ ld = NoRecord
    /\ rdrc = 0
    /\ decoded = FALSE
    /\ PollLocalsInit
    /\ GustVarsInit

GustCall ==
    /\ pc = "gust"
    /\ ncalls < MaxCalls
    /\ \E sp \in Speeds, d \in Dirs : GustStep(sp, d, BOOLEAN)
    /\ UNCHANGED spikeAt
    /\ GustFrame

InitGust ==
    /\ pc = "gust"
    /\ fwxinterval \in GustIntervals
    /\ InitGustRest

SpecGust == InitGust /\ [][GustCall]_vars

\* A stream of speed-5 observations with at most one speed-40 observation.
SpikeCall ==
    /\ pc = "spike"
    /\ ncalls < MaxSpikeCalls
    /\ \E sp \in {5, 40} :
          /\ sp = 40 => spikeAt = 0
          /\ GustStep(sp, 0, {TRUE})
          /\ spikeAt' = IF sp = 40 THEN ncalls + 1 ELSE spikeAt
    /\ GustFrame

InitSpike ==
    /\ pc = "spike"
    /\ fwxinterval \in SpikeIntervals
    /\ InitGustRest

SpecSpike == InitSpike /\ [][SpikeCall]_vars

\* The tracker's first use, for every sampling interval of 1 .. 600 seconds.
FirstUse ==
    /\ pc = "cap"
    /\ gt.walen = 0
    /\ ncalls < MaxCalls
    /\ \E sp \in Speeds : GustStep(sp, 0, BOOLEAN)
    /\ UNCHANGED spikeAt
    /\ GustFrame

InitCap ==
    /\ pc = "cap"
    /\ fwxinterval \in 1 .. TenMinutes
    /\ InitGustRest

SpecCap == InitCap /\ [][FirstUse]_vars

(***************************************************************************)
(* wxsendcwop on its own: a few calls some minutes apart, over samples     *)
(* that reach every branch of the packet's formats.                        *)
(***************************************************************************)
MaxAttempts == 3

\* Seconds between one call of wxsendcwop and the next.
CwopGaps == {60, 240, 360}

\* Raw members of the records the samples are decoded from: outdoor
\* temperatures -5.0, -4.5, -120.0 and 72.3 deg F, humidities 100 and 55,
\* solar radiation 800, 1200 and 2100, wind 0 and 5.
CwopFields ==
    {[Breezy EXCEPT !.tempOut = t, !.humOut = x[1], !.solar = x[2],
                    !.windSpeed = x[3]] :
        t \in {65536 - 50, 65536 - 45, 65536 - 1200, 723},
        x \in {<<100, 1200, 0>>, <<55, 800, 5>>, <<55, 2100, 5>>}}

CwopSamples ==
    {cvtvploop2fwx(MkRecord(0, f), ZeroSample(CwopMinGap), NoTracker,
                   TenMinutes, TRUE, 0, ZeroWind).wxdat : f \in CwopFields}

InitCwop ==
    /\ pc = "cwop"
    /\ cycle = 1
    /\ now = CwopMinGap
    /\ fwxinterval \in PollIntervals
    /\ cfg \in {c \in Configs : ~WuSet(c) /\ ~AerisSet(c)}
    /\ wxdat \in CwopSamples
    /\ ld = NoRecord
    /\ rdrc = 0
    /\ decoded = TRUE
    /\ PollLocalsInit
    /\ GustVarsInit

\* One call of wxsendcwop; the calls after the first come a gap later.
CwopAttempt ==
    /\ pc = "cwop"
    /\ ncalls < MaxAttempts
    /\ \E gap \in (IF ncalls = 0 THEN {0} ELSE CwopGaps),
          how \in CwopHows, ban \in SrvOutcomes, rsp \in SrvOutcomes :
          LET t == now + gap
              w == [wxdat EXCEPT !.time = t]
              r == wxsendcwop(CwopSet(cfg), t, lasthere, w, how, ban, rsp)
          IN  /\ now' = t
              /\ wxdat' = w
              /\ cwop' = r.cwop
              /\ lasthere' = r.lasthere
              /\ pktAt' = pktAt
    /\ ncalls' = ncalls + 1
    /\ UNCHANGED <<pc, cycle, fwxinterval, cfg, gt, gtPrev, gustret, hist,
                   spikeAt, i, wake, ack, cmdWritten, ld, rdrc, crcres, crcover, rx, clk,
                   decoded, logst, wuSent, wuQuery, aerisSent, aerisQuery>>

SpecCwop == InitCwop /\ [][CwopAttempt]_vars

(***************************************************************************)
(* cvtvploop2fwx on its own: records whose outdoor temperature, outdoor    *)
(* humidity, wind speed and barometer are each legal or not.               *)
(***************************************************************************)
\* Raw members: temperatures 72.3 and -5.0 (legal), 0x1000 and 150.0 (not);
\* humidities 55 and 100 (legal), 0 (legal, no dewpoint), 101 and 0xFF (not).
DecodeFields ==
    {[Breezy EXCEPT !.tempOut = t, !.humOut = h, !.windSpeed = ws,
                    !.bar = b] :
        t \in {723, 65536 - 50, 4096, 1500}, h \in {55, 100, 0, 101, 255},
        ws \in {0, 5, 255}, b \in {29921, 65535}}

InitDecode ==
    /\ pc = "decode"
    /\ cycle = 1
    /\ now = CwopMinGap
    /\ fwxinterval \in PollIntervals
    /\ cfg \in {c \in Configs : ~WuSet(c) /\ ~AerisSet(c) /\ ~CwopSet(c)}
    /\ wxdat = ZeroSample(CwopMinGap)
    /\ ld \in {MkRecord(0, f) : f \in DecodeFields}
    /\ rdrc = VPLOOPSIZE
    /\ decoded = FALSE
    /\ PollLocalsInit
    /\ GustVarsInit

SpecDecode == InitDecode /\ [][Decode]_vars

(***************************************************************************)
(* The three uplink stages of one cycle on their own, over every           *)
(* combination of set and empty configuration strings.                     *)
(***************************************************************************)
InitUplinks ==
    /\ pc = "wu"
    /\ cycle = 1
    /\ now = CwopMinGap
    /\ fwxinterval \in PollIntervals
    /\ cfg \in AllConfigs
    /\ wxdat = cvtvploop2fwx(MkRecord(0, Breezy), ZeroSample(CwopMinGap),
                             NoTracker, TenMinutes, TRUE, 0, ZeroWind).wxdat
    /\ ld = NoRecord
    /\ rdrc = 0
    /\ decoded = TRUE
    /\ PollLocalsInit
    /\ GustVarsInit

SpecUplinks == InitUplinks /\ [][WxSendWu \/ WxSendCwop \/ WxSendAeris]_vars

(***************************************************************************)
(* The claims.                                                             *)
(***************************************************************************)
AfterGetLoop == pc \in {"ret", "log", "wu", "cwop", "aeris", "wait"}

Valid(name) == WXD_ISVALID(wxdat[name])

\* C1: a cycle whose station conversation failed (cvtvploop2fwx never ran)
\* ends with no CSV line written and no Wunderground, CWOP or Aeris uplink
\* sent.
C1_FailedCycleSendsNothing ==
    (pc = "wait" /\ ~decoded) =>
        (~logst.opened /\ ~wuSent /\ ~cwop.sent /\ ~aerisSent)

\* C2: once all 4 wake attempts of a cycle have failed, the LOOP command is
\* not written and the cycle goes on to no read of the record.
C2_WakeExhaustedAbandonsCycle ==
    (i = WakeTries) => (~cmdWritten /\ pc \notin {"ack", "read", "crc", "decode"})

\* C3: wxwakeup returns 0 only if wxread stored two bytes and they are CR LF
\* or LF CR.
C3_WakeOnlyOnCrLfPair ==
    (wake.called /\ wake.res = 0) =>
        (wake.got = 2 /\ <<wake.r0, wake.r1>> \in {<<CR, LF>>, <<LF, CR>>})

\* C4: wxgetack performs at most 5 reads, and after 5 reads without an ACK it
\* has failed rather than going on to read again.
C4_AckWithinFiveReads ==
    /\ ack.reads <= AckTries
    /\ (pc = "ack") => (ack.reads < AckTries)

\* C5: cvtvploop2fwx runs in a cycle only after the bulk read returned the
\* full 99 bytes and wxcrc returned 0; in a cycle in which it did not run,
\* the sample is still the zeroed one (no measurement valid, no wind set) and
\* the gust tracker is as it was when the cycle began.
C5_DecodeOnlyOnGoodRecord ==
    /\ (pc = "decode" \/ (pc = "ret" /\ decoded)) =>
           (rdrc = VPLOOPSIZE /\ crcres = 0)
    /\ (AfterGetLoop /\ ~decoded) => (wxdat = ZeroSample(now) /\ gt = gtPrev)

\* A cycle, not the first, whose record arrived in full and failed the CRC.
C5_Witness ==
    /\ pc = "ret" /\ rdrc = VPLOOPSIZE /\ crcres # 0 /\ ~decoded
    /\ gt.walen > 0 /\ gt = gtPrev /\ wxdat = ZeroSample(now)

\* C6: whatever measurements are valid, the line wxlog writes has 17
\* comma-terminated columns; with only the barometer (29.921) and the outdoor
\* temperature (72.3) valid it is 0,5,<ts>,29.921,,,,,72.3,,,,,,,,, and a
\* newline.
C6_SeventeenColumns ==
    logst.opened =>
        /\ Columns(logst.chunks) = 3 + Len(LogFields)
        /\ ({f \in MeasFields : Valid(f)} = {"barometer", "outdoortemp"}) =>
               (logst.line = "0,5," \o ToString(wxdat.time)
                             \o ",29.921,,,,,72.3,,,,,,,,,\n")

SpeedAt(k) == IF k >= 1 THEN hist[k].speed ELSE 0

\* The calls whose observations are the W most recent ones.
Window == (Len(hist) - TenMin(fwxinterval) + 1) .. Len(hist)

WindowMax == CHOOSE m \in {SpeedAt(k) : k \in Window} :
                 \A k \in Window : SpeedAt(k) <= m

EarliestMax == CHOOSE k \in Window :
                   /\ SpeedAt(k) = WindowMax
                   /\ \A j \in Window : SpeedAt(j) = WindowMax => k <= j

\* C8: a call that returns an observation returns the one of highest speed
\* among the W = 600/interval + 1 most recent, and the earliest recorded of
\* those when several share that speed (the k-th recorded observation is in
\* slot (k - 1) mod walen).
C8_GustIsEarliestWindowMax ==
    (ncalls > 0 /\ ~gustret.null) =>
        /\ gustret.obs.speed = WindowMax
        /\ gustret.found = (EarliestMax - 1) % gt.walen

IsPow2(n) == \E e \in 0 .. 10 : n = 2 ^ e

\* C10 as stated: the capacity chosen at first use is the smallest power of
\* two that is >= 600/interval + 1.
C10_CapacityLeastPow2AtLeast ==
    (gt.walen > 0) =>
        /\ IsPow2(gt.walen)
        /\ gt.walen >= TenMin(fwxinterval)
        /\ gt.walen \div 2 < TenMin(fwxinterval)

\* C10 as amended: the capacity chosen at first use is the smallest power of
\* two that is strictly greater than 600/interval + 1.
C10_CapacityLeastPow2Above ==
    (gt.walen > 0) =>
        /\ IsPow2(gt.walen)
        /\ gt.tenmin = TenMin(fwxinterval)
        /\ gt.walen > gt.tenmin
        /\ gt.walen \div 2 <= gt.tenmin

\* An interval whose window length is itself a power of two.
C10_Witness == fwxinterval = 200 /\ gt.tenmin = 4 /\ gt.walen = 8

\* C11: when malloc fails at first use (wxcalcwindgust returns no
\* observation), the gust of that cycle's sample equals the cycle's current
\* wind observation.
C11_NoBufferGustIsCurrent ==
    (decoded /\ gustret.null) => (wxdat.windgust = wxdat.windcur)

\* The names of the parameters of a query.
Names(q) == {q[k][1] : k \in 1 .. Len(q)}

\* Whether event a comes before the first event b of a session.
Before(ev, a, b) ==
    \A k \in 1 .. Len(ev) : ev[k] = b => \E j \in 1 .. k - 1 : ev[j] = a

NoNetwork == {"noaddr", "nosocket", "noconnect"}

C13_StampOnlyOnSuccess ==
    [][/\ (lasthere' # lasthere) =>
              /\ cwop'.sent /\ lasthere' = now'
              /\ \E j, k \in 1 .. Len(cwop'.events) :
                     j < k /\ cwop'.events[j] = "login"
                           /\ cwop'.events[k] = "packet"
       /\ (~cwop'.sent) => (lasthere' = lasthere)]_vars

\* A failed session after a successful one: lasthere still is the time of
\* the successful one.
C13_Witness ==
    /\ ncalls = 2 /\ cwop.tried /\ cwop.connected /\ ~cwop.sent
    /\ lasthere = CwopMinGap /\ now = lasthere + 360

\* C14: when wxsendcwop has returned, a socket it connected has been closed.
C14_ConnectedSocketClosed ==
    (pc \in {"aeris", "wait"} /\ cwop.connected) => cwop.closed

\* C15: in a session the login line is written only after banner data was
\* read and the packet only after the login line and a further response; a
\* complete session is connect, banner, login, response, packet, close.
C15_SessionOrder ==
    /\ Before(cwop.events, "connect", "login")
    /\ Before(cwop.events, "banner", "login")
    /\ Before(cwop.events, "login", "packet")
    /\ Before(cwop.events, "response", "packet")
    /\ cwop.sent => (cwop.events = <<"connect", "banner", "login",
                                     "response", "packet", "close">>)

\* Exactly two, exactly three decimal digits.
Digits2(n) == ToString((n \div 10) % 10) \o ToString(n % 10)

Digits3(n) == ToString((n \div 100) % 10) \o Digits2(n)

\* The outdoor temperature of the sample rounded to an integer (ties to
\* even), its humidity and its solar radiation.
RoundedTemp == NearbyInt(wxdat.outdoortemp.dat.n, 10)

Humidity == wxdat.outdoorhum.dat.n

Solar == wxdat.solar.dat.n

\* C16: in the packet humidity 100 is h00 and any other humidity h and its
\* two digits; a negative rounded temperature -n is t- and the two digits of
\* n, a non-negative one t and three digits; solar radiation of 1000 or more
\* is l and the three digits of (value - 1000), else L and three digits; so
\* temperature -5, humidity 100, solar 1200 give t-05, h00, l200.
C16_AprsFields ==
    (cwop.packet.built /\ Valid("outdoortemp") /\ Valid("outdoorhum")
                       /\ Valid("solar")) =>
        /\ cwop.packet.hum = IF Humidity = 100 THEN "h00"
                             ELSE "h" \o Digits2(Humidity)
        /\ cwop.packet.temp = IF RoundedTemp < 0
                              THEN "t-" \o Digits2(0 - RoundedTemp)
                              ELSE "t" \o Digits3(RoundedTemp)
        /\ cwop.packet.solar = IF Solar >= 1000
                               THEN "l" \o Digits3(Solar - 1000)
                               ELSE "L" \o Digits3(Solar)

\* The source measurement of a numeric parameter of the queries.
SourceField(name) ==
    CASE name \in {"windspeedmph", "windgustmph"} -> "windspeed"
      [] name = "tempf" -> "outdoortemp"
      [] name = "rainin" -> "rainrate"
      [] name = "dailyrainin" -> "rainday"
      [] name = "baromin" -> "barometer"
      [] name = "humidity" -> "outdoorhum"
      [] name = "dewptf" -> "outdoordewpoint"
      [] name = "solarradiation" -> "solar"

NumericParams == {"windspeedmph", "windgustmph", "tempf", "rainin",
                  "dailyrainin", "baromin", "humidity", "dewptf",
                  "solarradiation"}

\* C17: a numeric parameter is in the Wunderground or the Aeris query only
\* if its source measurement is valid in the cycle's sample.
C17_NumericOnlyIfValid ==
    \A name \in NumericParams :
        (name \in Names(wuQuery) \cup Names(aerisQuery)) =>
            Valid(SourceField(name))

\* C18 as stated: both queries hold winddir exactly when the wind speed is
\* not 0 and windgustdir exactly when the gust speed is not 0.
C18_BothQueriesGustDir ==
    /\ wuSent =>
          /\ ("winddir" \in Names(wuQuery)) <=> (wxdat.windcur.speed # 0)
          /\ ("windgustdir" \in Names(wuQuery)) <=> (wxdat.windgust.speed # 0)
    /\ aerisSent =>
          /\ ("winddir" \in Names(aerisQuery)) <=> (wxdat.windcur.speed # 0)
          /\ ("windgustdir" \in Names(aerisQuery))
                 <=> (wxdat.windgust.speed # 0)

\* C18 as amended: both queries hold winddir exactly when the wind speed is
\* not 0; the Wunderground query holds windgustdir exactly when the gust
\* speed is not 0, and the Aeris query never holds it (it holds windgustmph
\* alone).
C18_GustDirInWuOnly ==
    /\ wuSent =>
          /\ ("winddir" \in Names(wuQuery)) <=> (wxdat.windcur.speed # 0)
          /\ ("windgustdir" \in Names(wuQuery)) <=> (wxdat.windgust.speed # 0)
    /\ aerisSent =>
          /\ ("winddir" \in Names(aerisQuery)) <=> (wxdat.windcur.speed # 0)
          /\ "windgustdir" \notin Names(aerisQuery)
          /\ "windgustmph" \in Names(aerisQuery)

\* Both queries sent in a cycle whose gust speed is not 0.
C18_Witness ==
    /\ pc = "wait" /\ wuSent /\ aerisSent /\ wxdat.windgust.speed # 0
    /\ "windgustdir" \in Names(wuQuery)
    /\ "windgustdir" \notin Names(aerisQuery)

\* C19: with a current wind speed of 0, neither query holds winddir and the
\* packet carries no direction.
C19_NoDirectionWhenCalm ==
    (wxdat.windcur.speed = 0) =>
        /\ "winddir" \notin Names(wuQuery) \cup Names(aerisQuery)
        /\ cwop.packet.built => (cwop.packet.dir = "")

\* C20: in a cycle each output stage is followed by the next whatever its
\* outcome (wxlog by wxsendwu, that by wxsendcwop, that by wxsendaeris, that
\* by the wait), each stage can always be taken, and each configured uplink
\* that is due is attempted.
C20_StagesAllAttempted ==
    [][/\ (pc = "log") => (ENABLED WxLog /\ pc' = "wu")
       /\ (pc = "wu") => (ENABLED WxSendWu /\ pc' = "cwop" /\ wuSent' = WuSet(cfg))
       /\ (pc = "cwop") =>
              /\ ENABLED WxSendCwop
              /\ pc' = "aeris"
              /\ cwop'.tried <=> (CwopSet(cfg) /\ now - lasthere >= 300)
       /\ (pc = "aeris") =>
              (ENABLED WxSendAeris /\ pc' = "wait" /\ aerisSent' = AerisSet(cfg))
      ]_vars

\* A cycle in which the log file could not be opened and the CWOP session
\* failed, and both HTTP uplinks were still made.
C20_Witness ==
    /\ pc = "wait" /\ decoded /\ ~logst.opened
    /\ cwop.tried /\ ~cwop.sent /\ wuSent /\ aerisSent

\* C21: every measurement field whose value an output stage takes is valid:
\* in the line wxlog wrote, in the two queries and in the CWOP packet.
C21_ValuesReadOnlyIfValid ==
    /\ logst.opened => \A f \in LogReads(wxdat) : Valid(f)
    /\ (wuSent \/ aerisSent) => \A f \in QueryReads(wxdat) : Valid(f)
    /\ cwop.packet.built => \A f \in cwop.packet.reads : Valid(f)

\* C22: a valid dewpoint carries the unit label and the unit-system flag of
\* the outdoor temperature it was computed from (deg F and English for the
\* station's Fahrenheit temperature, after a conversion to Celsius and back).
C22_DewpointMirrorsTempUnits ==
    (decoded /\ Valid("outdoordewpoint")) =>
        /\ wxdat.outdoordewpoint.units = wxdat.outdoortemp.units
        /\ WXD_ISENGLISH(wxdat.outdoordewpoint)
               <=> WXD_ISENGLISH(wxdat.outdoortemp)
        /\ wxdat.outdoordewpoint.dat.kind = "dewF"

\* C23: after decoding, the dewpoint is valid only if the outdoor
\* temperature and the outdoor humidity of the sample are both valid.
C23_DewpointNeedsBothInputs ==
    decoded =>
        (Valid("outdoordewpoint") =>
             (Valid("outdoortemp") /\ Valid("outdoorhum")))

\* A decoded sample with a valid temperature and an invalid humidity.
C23_Witness ==
    /\ decoded /\ Valid("outdoortemp") /\ ~Valid("outdoorhum")
    /\ ~Valid("outdoordewpoint")

\* C24: wxsendwu and wxsendaeris do nothing on the network when their
\* station id or their password is empty; wxsendcwop opens no socket when
\* the server, the user or the location is empty or when the server's name
\* yields no address.
C24_UnsetUplinkSilent ==
    /\ (pc \in {"cwop", "aeris", "wait"}
            /\ (~cfg.wustation \/ ~cfg.wupassword)) =>
           (~wuSent /\ wuQuery = <<>>)
    /\ (pc = "wait" /\ (~cfg.aerisstation \/ ~cfg.aerispassword)) =>
           (~aerisSent /\ aerisQuery = <<>>)
    /\ (pc \in {"aeris", "wait"}
            /\ (~cfg.cwopsvr \/ ~cfg.cwopuser \/ ~cfg.cwoploc)) =>
           (~cwop.tried /\ ~cwop.connected /\ cwop.events = <<>>)
    /\ (cwop.how = "noaddr") =>
           (~cwop.connected /\ ~cwop.closed /\ cwop.events = <<>>)

\* A cycle with the Wunderground password and the CWOP location missing and
\* Aeris fully set.
C24_Witness ==
    /\ pc = "wait"
    /\ cfg.wustation /\ ~cfg.wupassword /\ ~wuSent
    /\ cfg.cwopsvr /\ cfg.cwopuser /\ ~cfg.cwoploc /\ ~cwop.tried
    /\ cfg.aerisstation /\ cfg.aerispassword /\ aerisSent

\* C25: the bytes handed to wxcrc are those of the record just read: the
\* range starts at the first signature byte (offset 0, so offsets 0, 1 and 2
\* are in it) and holds no offset outside the 99-byte buffer.
C25_CrcOverTheRecord ==
    (crcover # {}) =>
        /\ {0, 1, 2} \subseteq crcover
        /\ crcover \subseteq 0 .. VPLOOPSIZE - 1

(***************************************************************************)
(* wxread on its own: one call with arguments from a range that holds the  *)
(* callers' (2, 5), (1, 1) and the limits of both range tests.             *)
(***************************************************************************)
MaxReadLen == 3

ReadLens == (0 .. MaxReadLen) \cup {MAX_READ + 1}

ReadTimeouts == {0, 1, 5, 10, 26, MAX_TIMEOUT, MAX_TIMEOUT + 1}

\* The phase of the clock within its second when wxread is entered.
ClockPhases == {0, 9}

\* wxread's entry.
ReadEnter ==
    /\ rx.pc = "entry"
    /\ rx' = wxreadEnter(rx, clk)
    /\ UNCHANGED <<pc, cycle, now, fwxinterval, cfg, wxdat, gt, gtPrev,
                   gustret, hist, ncalls, spikeAt, i, wake, ack, cmdWritten,
                   ld, rdrc, crcres, crcover, clk, decoded, logst, wuSent,
                   wuQuery, aerisSent, aerisQuery, cwop, lasthere, pktAt>>

\* One pass of wxread's loop: wxsettimeout, read, the new timeout.
ReadPass ==
    /\ rx.pc = "loop"
    /\ rx.remaining > 0 /\ rx.timeout > 0
    /\ \E setrc \in {0 - 1, 0},
          out \in ReadOutcomes(rx.remaining, VTime(rx.timeout)) :
          LET t == IF setrc = 0 THEN clk + out.waited ELSE clk
          IN  /\ rx' = wxreadPass(rx, setrc, out.rc, t)
              /\ clk' = t
    /\ UNCHANGED <<pc, cycle, now, fwxinterval, cfg, wxdat, gt, gtPrev,
                   gustret, hist, ncalls, spikeAt, i, wake, ack, cmdWritten,
                   ld, rdrc, crcres, crcover, decoded, logst, wuSent,
                   wuQuery, aerisSent, aerisQuery, cwop, lasthere, pktAt>>

\* The loop's exit and wxread's return.
ReadReturn ==
    /\ rx.pc = "loop"
    /\ ~(rx.remaining > 0 /\ rx.timeout > 0)
    /\ rx' = wxreadReturn(rx)
    /\ UNCHANGED <<pc, cycle, now, fwxinterval, cfg, wxdat, gt, gtPrev,
                   gustret, hist, ncalls, spikeAt, i, wake, ack, cmdWritten,
                   ld, rdrc, crcres, crcover, clk, decoded, logst, wuSent,
                   wuQuery, aerisSent, aerisQuery, cwop, lasthere, pktAt>>

InitRead ==
    /\ pc = "wxread"
    /\ cycle = 0
    /\ now = 0
    /\ fwxinterval \in PollIntervals
    /\ cfg = NoUplinks
    /\ wxdat = ZeroSample(0)
    /\ GustVarsInit
    /\ i = 0
    /\ wake = NoWake
    /\ ack = NoAck
    /\ cmdWritten = FALSE
    /\ ld = NoRecord
    /\ rdrc = 0
    /\ crcres = 0
    /\ crcover = {}
    /\ decoded = FALSE
    /\ logst = NoLog
    /\ wuSent = FALSE
    /\ wuQuery = <<>>
    /\ aerisSent = FALSE
    /\ aerisQuery = <<>>
    /\ cwop = NoCwop
    /\ lasthere = 0
    /\ pktAt = <<>>
    /\ \E len \in ReadLens, timeout \in ReadTimeouts : rx = ReadCall(len, timeout)
    /\ clk \in ClockPhases

SpecRead == InitRead /\ [][ReadEnter \/ ReadPass \/ ReadReturn]_vars

\* wxread has returned from a call whose arguments passed both range tests.
ReadAccepted == rx.pc = "done" /\ DOMAIN rx.buf # {}

\* What C26 says of the value returned and of the buffer: the value is the
\* sum of the counts of all the reads, between 0 and len; it is len exactly
\* when every cell was written, no later than the second of the deadline; a
\* shorter count is returned only once the deadline has come (zero-byte and
\* short reads before it are followed by another read); cell k holds the
\* k-th byte that arrived, and nothing is stored past the count.
ReadAccumulated ==
    /\ rx.ret = rx.arrived
    /\ 0 <= rx.ret /\ rx.ret <= rx.len
    /\ (rx.ret = rx.len) <=>
           /\ \A k \in DOMAIN rx.buf : rx.buf[k] # 0
           /\ rx.filledAt >= 0 /\ rx.filledAt <= rx.expire
    /\ (rx.ret < rx.len) => Time(clk) >= rx.expire
    /\ DOMAIN rx.buf = 1 .. rx.len
    /\ \A k \in DOMAIN rx.buf : rx.buf[k] = IF k <= rx.ret THEN k ELSE 0

\* C26 (as stated): wxread called with valid arguments returns the total
\* number of bytes accumulated over all partial reads, between 0 and len; len
\* exactly when the buffer was filled before the deadline; it keeps looping
\* after a zero-byte or short read while time remains, stores the bytes
\* contiguously in arrival order and never stores more than len.
C26_ReadReturnsTotal == ReadAccepted => ReadAccumulated

\* C26 (amended): the same, unless wxsettimeout or read failed in some pass;
\* then wxread returns -1, whatever it had accumulated.
C26_ReadReturnsTotalOrError ==
    ReadAccepted =>
        IF rx.failed THEN rx.ret = 0 - 1 ELSE ReadAccumulated

\* A full buffer of three bytes gathered after a zero-byte read and a short
\* read, each with time left.
C26_Witness ==
    /\ ReadAccepted /\ ~rx.failed
    /\ rx.len = 3 /\ rx.ret = 3
    /\ rx.zero /\ rx.short /\ rx.more

(***************************************************************************)
(* The device phase of a cycle, wxgetloop from its first wxwakeup to the   *)
(* return of its bulk wxread, with every wxread carried out pass by pass.  *)
(***************************************************************************)
\* wxwakeup up to its call of wxread: wxflush and the write of the newline.
WakeBegin ==
    /\ pc = "wake" /\ rx.pc = "idle"
    /\ \E flushrc \in {0 - 1, 0}, wrc \in {0 - 1, 0, 1} :
          IF flushrc = 0 /\ wrc = 1
          THEN /\ rx' = ReadCall(2, 5)
               /\ pc' = "wakerd"
               /\ wake' = NoWake
               /\ i' = i
          ELSE /\ wake' = [called |-> TRUE,
                           res |-> wxwakeup(flushrc, wrc, 0, 88, 88),
                           got |-> 0, r0 |-> 88, r1 |-> 88]
               /\ i' = i + 1
               /\ pc' = IF i + 1 < WakeTries THEN "wake" ELSE "cmd"
               /\ rx' = rx
    /\ UNCHANGED <<cycle, now, fwxinterval, cfg, wxdat, gt, gtPrev, gustret,
                   hist, ncalls, spikeAt, ack, cmdWritten, ld, rdrc, crcres,
                   crcover, clk, decoded, logst, wuSent, wuQuery, aerisSent,
                   aerisQuery, cwop, lasthere, pktAt>>

\* wxwakeup after wxread returned, and wxgetloop's test of its result.  The
\* bytes of resp that wxread did not store are whatever the stack held.
WakeEnd ==
    /\ pc = "wakerd" /\ rx.pc = "done"
    /\ \E r0 \in WakeBytes, r1 \in WakeBytes :
          LET res == wxwakeup(0, 1, rx.ret, r0, r1)
          IN  /\ wake' = [called |-> TRUE, res |-> res,
                          got |-> IF rx.ret >= 0 THEN rx.ret ELSE 0,
                          r0 |-> r0, r1 |-> r1]
              /\ IF res = 0
                 THEN i' = i /\ pc' = "cmd"
                 ELSE /\ i' = i + 1
                      /\ pc' = IF i + 1 < WakeTries THEN "wake" ELSE "cmd"
    /\ rx' = NoRead
    /\ UNCHANGED <<cycle, now, fwxinterval, cfg, wxdat, gt, gtPrev, gustret,
                   hist, ncalls, spikeAt, ack, cmdWritten, ld, rdrc, crcres,
                   crcover, clk, decoded, logst, wuSent, wuQuery, aerisSent,
                   aerisQuery, cwop, lasthere, pktAt>>

\* wxcmd's write of the command.
CmdWrite ==
    /\ pc = "cmd"
    /\ \E wrc \in {"err", "short", "full"}, junk \in DevBytes :
          /\ cmdWritten' = (wrc = "full")
          /\ IF wxcmdWrite(wrc) = "ack"
             THEN pc' = "ack" /\ ack' = [NoAck EXCEPT !.ackbuf = junk]
             ELSE pc' = "ret" /\ ack' = NoAck
    /\ wake' = NoWake
    /\ UNCHANGED <<cycle, now, fwxinterval, cfg, wxdat, gt, gtPrev, gustret,
                   hist, ncalls, spikeAt, i, ld, rdrc, crcres, crcover,
                   rx, clk, decoded, logst, wuSent, wuQuery, aerisSent,
                   aerisQuery, cwop, lasthere, pktAt>>

\* wxgetack calls wxread(fd, &ackbuf, 1, 1).
AckBegin ==
    /\ pc = "ack" /\ rx.pc = "idle"
    /\ rx' = ReadCall(1, 1)
    /\ pc' = "ackrd"
    /\ UNCHANGED <<cycle, now, fwxinterval, cfg, wxdat, gt, gtPrev, gustret,
                   hist, ncalls, spikeAt, i, wake, ack, cmdWritten, ld, rdrc,
                   crcres, crcover, clk, decoded, logst, wuSent, wuQuery,
                   aerisSent, aerisQuery, cwop, lasthere, pktAt>>

\* The rest of the pass of wxgetack's loop, once wxread returned.
AckEnd ==
    /\ pc = "ackrd" /\ rx.pc = "done"
    /\ \E b \in DevBytes :
          LET r == wxgetack(ack, rx.ret, IF rx.ret = 1 THEN b ELSE 0)
          IN  /\ ack' = r.ack
              /\ pc' = CASE r.out = "ok" -> "read"
                         [] r.out = "again" -> "ack"
                         [] OTHER -> "ret"
    /\ rx' = NoRead
    /\ UNCHANGED <<cycle, now, fwxinterval, cfg, wxdat, gt, gtPrev, gustret,
                   hist, ncalls, spikeAt, i, wake, cmdWritten, ld, rdrc,
                   crcres, crcover, clk, decoded, logst, wuSent, wuQuery,
                   aerisSent, aerisQuery, cwop, lasthere, pktAt>>

\* wxgetloop calls wxread(fd, &ld, sizeof(vploopdata_t), 10).
BulkBegin ==
    /\ pc = "read" /\ rx.pc = "idle"
    /\ rx' = ReadCall(VPLOOPSIZE, 10)
    /\ pc' = "readrd"
    /\ UNCHANGED <<cycle, now, fwxinterval, cfg, wxdat, gt, gtPrev, gustret,
                   hist, ncalls, spikeAt, i, wake, ack, cmdWritten, ld, rdrc,
                   crcres, crcover, clk, decoded, logst, wuSent, wuQuery,
                   aerisSent, aerisQuery, cwop, lasthere, pktAt>>

\* The bulk wxread returned: rc is set and the station is not read again.
BulkEnd ==
    /\ pc = "readrd" /\ rx.pc = "done"
    /\ rdrc' = rx.ret
    /\ pc' = "ret"
    /\ rx' = NoRead
    /\ UNCHANGED <<cycle, now, fwxinterval, cfg, wxdat, gt, gtPrev, gustret,
                   hist, ncalls, spikeAt, i, wake, ack, cmdWritten, ld,
                   crcres, crcover, clk, decoded, logst, wuSent, wuQuery,
                   aerisSent, aerisQuery, cwop, lasthere, pktAt>>

InitPhase ==
    /\ pc = "wake"
    /\ cycle = 1
    /\ now = 0
    /\ fwxinterval \in PollIntervals
    /\ cfg = NoUplinks
    /\ wxdat = ZeroSample(0)
    /\ GustVarsInit
    /\ i = 0
    /\ wake = NoWake
    /\ ack = NoAck
    /\ cmdWritten = FALSE
    /\ ld = NoRecord
    /\ rdrc = 0
    /\ crcres = 0
    /\ crcover = {}
    /\ rx = NoRead
    /\ clk \in ClockPhases
    /\ decoded = FALSE
    /\ logst = NoLog
    /\ wuSent = FALSE
    /\ wuQuery = <<>>
    /\ aerisSent = FALSE
    /\ aerisQuery = <<>>
    /\ cwop = NoCwop
    /\ lasthere = 0
    /\ pktAt = <<>>

NextPhase ==
    \/ WakeBegin
    \/ WakeEnd
    \/ CmdWrite
    \/ AckBegin
    \/ AckEnd
    \/ BulkBegin
    \/ BulkEnd
    \/ ReadEnter
    \/ ReadPass
    \/ ReadReturn

\* The program is not stopped: a step that can be taken is taken.  What the
\* device does in a step is not constrained.
FairSpecPhase == InitPhase /\ [][NextPhase]_vars /\ WF_vars(NextPhase)

\* C27: every call of wxread returns, and the device phase of the cycle
\* (wake attempts, command and ACK reads, bulk read) comes to its end,
\* whatever the device sends or fails to send.
C27_DevicePhaseTerminates ==
    /\ [](rx.pc = "entry" => <>(rx.pc = "done"))
    /\ <>(pc = "ret")

\* A silent device: four wake attempts and six ACK reads that each ran out
\* their deadline, 26 seconds in all, and the phase is over.
C27_Witness ==
    /\ pc = "ret"
    /\ i = WakeTries
    /\ ack.reads = AckTries + 1 /\ ~ack.got
    /\ clk >= 260

\* The observation the slot j places after the cursor should hold: with n
\* observations recorded, the one recorded walen - j calls ago, or the zero
\* of memset if there were not that many calls.
SlotAfterCursor(j) ==
    LET k == Len(hist) - gt.walen + 1 + j
    IN  IF k >= 1 THEN hist[k] ELSE ZeroWind

\* The cursor is in range, and from it onwards (wrapping) the slots hold the
\* observations from the oldest to the newest: the cursor's slot is the one
\* written walen calls ago, or was never written.
CursorAtOldest ==
    (gt.walen > 0) =>
        /\ 0 <= gt.waidx /\ gt.waidx < gt.walen
        /\ DOMAIN gt.warr = 0 .. gt.walen - 1
        /\ \A j \in 0 .. gt.walen - 1 :
              gt.warr[(gt.waidx + j) % gt.walen] = SlotAfterCursor(j)

\* C28: once the tracker is initialised its capacity never changes, the
\* cursor satisfies 0 <= waidx < walen, and before every call the cursor
\* designates the slot of the oldest observation in the buffer (written walen
\* calls ago, or never written and zero).
C28_CursorAtOldestSlot ==
    [][(gt.walen > 0 => gt'.walen = gt.walen) /\ CursorAtOldest']_vars

\* The buffer has wrapped: five observations in four slots, the cursor on
\* the second observation, which differs from the overwritten first.
C28_Witness ==
    /\ gt.walen = 4 /\ Len(hist) = 5 /\ gt.waidx = 1
    /\ gt.warr[1] = hist[2] /\ hist[2] # hist[1]

\* The slots the scan of the last call went through.
ScannedSlots ==
    {(ScanFirst(gt.waidx, gt.walen, gt.tenmin) + k) % gt.walen :
         k \in 0 .. gt.tenmin - 1}

\* C29: every non-null result of wxcalcwindgust designates a slot inside the
\* scanned window, and its speed is at least that of the observation just
\* recorded; also when every speed in the window is 0, where the gust
\* reported is 0.
C29_ResultInsideWindow ==
    (ncalls > 0 /\ ~gustret.null) =>
        /\ gustret.found \in ScannedSlots
        /\ gustret.obs.speed >= hist[Len(hist)].speed
        /\ (\A s \in ScannedSlots : gt.warr[s].speed = 0) =>
               gustret.obs.speed = 0

(***************************************************************************)
(* Cycles that succeed and cycles that fail, with the time of every        *)
(* observation kept: main's loop reduced to what reaches wxcalcwindgust.   *)
(***************************************************************************)
MaxAgeCycles == 5

AgeIntervals == {240}

\* A cycle, fwxinterval seconds after the one before, in which wxgetloop
\* reaches cvtvploop2fwx: the observation is handed to wxcalcwindgust.
PollOk ==
    /\ pc = "age"
    /\ cycle < MaxAgeCycles
    /\ \E sp \in {5, 40}, found0 \in FoundJunk(gt, fwxinterval),
          junk \in JunkWinds :
          LET r == wxcalcwindgust(gt, wind_t(sp, 0), fwxinterval, TRUE,
                                  found0, junk)
          IN  /\ gt' = r.gt
              /\ gustret' = r.ret
              /\ hist' = Append(hist, [speed |-> sp, direction |-> 0,
                                       at |-> now + fwxinterval])
    /\ now' = now + fwxinterval
    /\ cycle' = cycle + 1
    /\ ncalls' = ncalls + 1
    /\ UNCHANGED <<pc, fwxinterval, cfg, wxdat, gtPrev, spikeAt, i, wake, ack,
                   cmdWritten, ld, rdrc, crcres, crcover, rx, clk, decoded,
                   logst, wuSent, wuQuery, aerisSent, aerisQuery, cwop,
                   lasthere, pktAt>>

\* A cycle in which wxgetloop returns before cvtvploop2fwx: wxcalcwindgust
\* is not called and the cycle has no gust.
PollFail ==
    /\ pc = "age"
    /\ cycle < MaxAgeCycles
    /\ gustret' = NoGust
    /\ now' = now + fwxinterval
    /\ cycle' = cycle + 1
    /\ UNCHANGED <<pc, fwxinterval, cfg, wxdat, gt, gtPrev, hist, ncalls,
                   spikeAt, i, wake, ack, cmdWritten, ld, rdrc, crcres,
                   crcover, rx, clk, decoded, logst, wuSent, wuQuery,
                   aerisSent, aerisQuery, cwop, lasthere, pktAt>>

InitAge ==
    /\ pc = "age"
    /\ fwxinterval \in AgeIntervals
    /\ InitGustRest

SpecAge == InitAge /\ [][PollOk \/ PollFail]_vars

\* C30: for any sequence of successful and failed cycles, the gust reported
\* in a cycle is the speed of an observation recorded no more than 600
\* seconds before that cycle.
C30_GustWithinTenMinutes ==
    (~gustret.null) =>
        \E k \in 1 .. Len(hist) :
            /\ hist[k].speed = gustret.obs.speed
            /\ now - hist[k].at <= TenMinutes

\* C32: wxcmd returns success (wxgetloop goes on to its bulk read) only if a
\* byte equal to ACK was received from the device after the command was
\* written; a read that timed out with no byte never counts as an ACK.
C32_AckWasReceived == (pc = "read") => ack.got

\* C35: for every timeout that wxread accepts, the timer wxsettimeout
\* programs for the read about to be made is that many seconds, timeout * 10
\* tenths, without wrap-around in the 8-bit VTIME.
C35_TimerIsTimeout ==
    (rx.pc = "loop" /\ rx.remaining > 0 /\ rx.timeout > 0) =>
        VTime(rx.timeout) = rx.timeout * 10

(***************************************************************************)
(* wxsendcwop with the time its sessions take: now is read at entry, the   *)
(* packet is written after resolving, connecting and both waitforsrv.      *)
(***************************************************************************)
MaxSessions == 4

\* Seconds from one call's return to the next call's entry.
SessionGaps == {40, 240, 300}

\* Seconds a session spends between time() and the write of the packet:
\* gethostbyname, connect and the two select calls, which have no timeout.
SessionWaits == {0, 100, 200}

\* One call of wxsendcwop, entered gap seconds after the last one returned;
\* a session that gets as far as the packet writes it spent seconds later.
CwopSession ==
    /\ pc = "session"
    /\ ncalls < MaxSessions
    /\ \E gap \in (IF ncalls = 0 THEN {0} ELSE SessionGaps),
          spent \in SessionWaits, how \in {"noconnect", "sent"} :
          LET t == now + gap
              w == [wxdat EXCEPT !.time = t]
              r == wxsendcwop(CwopSet(cfg), t, lasthere, w, how,
                              <<1, 1>>, <<1, 1>>)
              took == IF r.cwop.tried THEN spent ELSE 0
          IN  /\ now' = t + took
              /\ wxdat' = w
              /\ cwop' = r.cwop
              /\ lasthere' = r.lasthere
              /\ pktAt' = IF r.cwop.sent THEN Append(pktAt, t + took)
                          ELSE pktAt
    /\ ncalls' = ncalls + 1
    /\ UNCHANGED <<pc, cycle, fwxinterval, cfg, gt, gtPrev, gustret, hist,
                   spikeAt, i, wake, ack, cmdWritten, ld, rdrc, crcres,
                   crcover, rx, clk, decoded, logst, wuSent, wuQuery,
                   aerisSent, aerisQuery>>

InitSession ==
    /\ pc = "session"
    /\ cycle = 1
    /\ now = CwopMinGap
    /\ fwxinterval \in PollIntervals
    /\ cfg \in {c \in Configs : CwopSet(c) /\ ~WuSet(c) /\ ~AerisSet(c)}
    /\ wxdat = cvtvploop2fwx(MkRecord(0, Breezy), ZeroSample(CwopMinGap),
                             NoTracker, TenMinutes, TRUE, 0, ZeroWind).wxdat
    /\ ld = NoRecord
    /\ rdrc = 0
    /\ decoded = TRUE
    /\ PollLocalsInit
    /\ GustVarsInit

SpecSession == InitSession /\ [][CwopSession]_vars

\* C31: two weather packets are never written to the CWOP server less than
\* 300 seconds apart, whatever time each session spends resolving,
\* connecting or waiting for the server.
C31_PacketsFiveMinutesApart ==
    \A k \in 1 .. Len(pktAt) - 1 : pktAt[k + 1] - pktAt[k] >= CwopMinGap

(***************************************************************************)
(* cvtvploop2fwx field by field: records that differ from a plain one in   *)
(* one member, which takes the values around every legality test.          *)
(***************************************************************************)
With8(rec, off, v) == [rec EXCEPT ![off] = v]

With16(rec, off, v) == [rec EXCEPT ![off] = v % 256, ![off + 1] = v \div 256]

\* The byte members take 0, 1, 100, 101, 254 and 0xFF; the 16-bit members
\* the unsigned patterns below, 65536 - 1500 being the int16_t -1500.
FieldRecords ==
    LET Offs8  == {OffHumIn, OffHumOut, OffWindSpeed, OffWindSpeed10}
        Offs16 == {OffBar, OffTempIn, OffTempOut, OffWindDir, OffRainRate,
                   OffSolarRad, OffRainDay, OffRainMonth, OffRainYear}
        Raws8  == {0, 1, 100, 101, 254, EIGHT_ONES}
        Raws16 == {0, 1, 360, 361, 1499, 1500, 4096, 32767, 32768,
                   65536 - 1500, 65536 - 1499, 65534, SIXTEEN_ONES}
    IN  {With8(MkRecord(0, Breezy), off, v) : off \in Offs8, v \in Raws8}
        \cup {With16(MkRecord(0, Breezy), off, v) :
                  off \in Offs16, v \in Raws16}
        \cup {AllOnes}

InitFields ==
    /\ pc = "decode"
    /\ cycle = 1
    /\ now = CwopMinGap
    /\ fwxinterval \in PollIntervals
    /\ cfg = NoUplinks
    /\ wxdat = ZeroSample(CwopMinGap)
    /\ ld \in FieldRecords
    /\ rdrc = VPLOOPSIZE
    /\ decoded = FALSE
    /\ PollLocalsInit
    /\ GustVarsInit

SpecFields == InitFields /\ [][Decode]_vars

\* The members of the record in ld as they were sent: a byte, the two bytes
\* of an unsigned 16-bit value low byte first, and the same as an int16_t.
RawByte(off) == ld[off]

RawWord(off) == ld[off] + 256 * ld[off + 1]

RawShort(off) ==
    IF RawWord(off) >= 32768 THEN RawWord(off) - 65536 ELSE RawWord(off)

\* Field name is valid exactly when ok, and then holds the number n/d.
DecodedAs(name, ok, n, d) ==
    /\ Valid(name) <=> ok
    /\ Valid(name) => (wxdat[name].dat = Num(n, d))

\* C33: decode marks barometer, rain rate, rain day/month/year and solar
\* valid exactly when the raw 16-bit value is not 0xFFFF, wind speed and
\* average wind speed exactly when the raw byte is not 0xFF, each humidity
\* exactly when the raw byte is at most 100, wind direction exactly when the
\* raw value is at most 360, each temperature exactly when the signed raw
\* value is strictly between -1500 and 1500; a valid value is raw/1000 for
\* barometer, raw/10 for temperature, raw/100 for rain.
C33_FieldValidity ==
    decoded =>
        /\ DecodedAs("barometer", RawWord(OffBar) # 65535,
                     RawWord(OffBar), 1000)
        /\ DecodedAs("rainrate", RawWord(OffRainRate) # 65535,
                     RawWord(OffRainRate), 100)
        /\ DecodedAs("rainday", RawWord(OffRainDay) # 65535,
                     RawWord(OffRainDay), 100)
        /\ DecodedAs("rainmonth", RawWord(OffRainMonth) # 65535,
                     RawWord(OffRainMonth), 100)
        /\ DecodedAs("rainyear", RawWord(OffRainYear) # 65535,
                     RawWord(OffRainYear), 100)
        /\ DecodedAs("solar", RawWord(OffSolarRad) # 65535,
                     RawWord(OffSolarRad), 1)
        /\ DecodedAs("windspeed", RawByte(OffWindSpeed) # 255,
                     RawByte(OffWindSpeed), 1)
        /\ DecodedAs("avgwindspeed", RawByte(OffWindSpeed10) # 255,
                     RawByte(OffWindSpeed10), 1)
        /\ DecodedAs("indoorhum", RawByte(OffHumIn) <= 100,
                     RawByte(OffHumIn), 1)
        /\ DecodedAs("outdoorhum", RawByte(OffHumOut) <= 100,
                     RawByte(OffHumOut), 1)
        /\ DecodedAs("winddir", RawWord(OffWindDir) <= 360,
                     RawWord(OffWindDir), 1)
        /\ DecodedAs("indoortemp",
                     0 - 1500 < RawShort(OffTempIn)
                         /\ RawShort(OffTempIn) < 1500,
                     RawShort(OffTempIn), 10)
        /\ DecodedAs("outdoortemp",
                     0 - 1500 < RawShort(OffTempOut)
                         /\ RawShort(OffTempOut) < 1500,
                     RawShort(OffTempOut), 10)

\* A record with humidity 100 decoded: the humidity is valid and is 100.
C33_Witness ==
    /\ decoded
    /\ RawByte(OffHumOut) = 100
    /\ Valid("outdoorhum") /\ wxdat.outdoorhum.dat = Num(100, 1)

\* C34: each numeric field of the APRS packet has its fixed width: 3
\* characters for wind direction, wind speed, gust speed, temperature (a
\* leading minus counts as one of the 3), daily rain and solar radiation, 2
\* for humidity and 5 for pressure (each after its one-letter tag; the wind
\* group is _ddd/sssgggg).
C34_AprsWidths ==
    cwop.packet.built =>
        /\ Len(cwop.packet.dir) = 3
        /\ Len(cwop.packet.wind) = 12
        /\ Len(cwop.packet.temp) = 1 + 3
        /\ Len(cwop.packet.rain) = 1 + 3
        /\ Len(cwop.packet.solar) = 1 + 3
        /\ Len(cwop.packet.hum) = 1 + 2
        /\ Len(cwop.packet.bar) = 1 + 5

====
